---------------------------- MODULE Spec2Model ----------------------------
(***************************************************************************)
(* InternLink backend: the application workflow (apply, status change,     *)
(* interview scheduling), job approval, resume upload and the notification *)
(* inbox, modelled over the relational tables the handlers read and write, *)
(* and the live notification channel with its registry of connections.     *)
(*                                                                         *)
(* A table is a sequence of rows; a row's primary key is its position (the *)
(* modelled handlers never delete rows, so autoincrement ids are dense).   *)
(* A request is served by a worker p: it starts with the handler's reads   *)
(* and checks, and takes one step per db.commit() of the handler.          *)
(***************************************************************************)
EXTENDS Integers, Sequences, FiniteSets, TLC

VARIABLES
    jobs,           \* table jobs: [recruiter_id, is_approved, is_active,
                    \*              skills_required, description]
    applications,   \* table applications: [user_id, job_id, resume_id, status]
    history,        \* table application_status_history
    interviews,     \* table interviews
    notifications,  \* table notifications
    resumes,        \* table resumes: [user_id, is_primary]
    interview_preps, \* table interview_preps: [user_id, job_id]
    users,          \* table users: [role, is_active]
    pc,             \* pc[p]: where worker p is in the handler it serves
    req,            \* req[p]: the request worker p serves, with the handler's locals
    pre,            \* pre[p]: the tables as they were when p's request started
    active_connections, \* manager.active_connections: user id -> its list of websockets
    websockets,     \* websockets[w]: the connection w and where its endpoint coroutine is
    pushes          \* the send_notification coroutines scheduled on the event loop

vars == <<jobs, applications, history, interviews, notifications, resumes,
          interview_preps, users, pc, req, pre,
          active_connections, websockets, pushes>>

tables == <<jobs, applications, history, interviews, notifications, resumes,
            interview_preps, users>>

\* The state of the live channel
live == <<active_connections, websockets, pushes>>

-----------------------------------------------------------------------------
(* Bounds of the model *)

MaxApplications == 2
MaxHistory == 2
MaxInterviews == 1
MaxNotifications == 2
MaxResumes == 3
MaxSockets == 3
MaxLiveSockets == 2
MaxPushes == 1
MaxPreps == 1
MaxJobs == 2
MaxUsers == 6

-----------------------------------------------------------------------------
(* Accounts. Registration (auth_routes.register) has created two applicants, *)
(* two recruiters, each with its recruiter profile, and one admin; the admin *)
(* has given a further account the role recruiter (admin_routes.update_user  *)
(* sets the role and creates no recruiter profile).                          *)

\* None, for a nullable string column
Null == "NULL"
\* None, for a nullable integer column or an absent id
NoId == 0

Applicants == {1, 2}
RecruiterUsers == {3, 4, 5}

AllUsers == Applicants \cup RecruiterUsers

\* recruiter_profiles: profile id (position) -> the owning user account
RecruiterProfiles == <<[user_id |-> 3], [user_id |-> 4]>>

\* db.query(RecruiterProfile).filter(RecruiterProfile.user_id == u).first(),
\* NoId for None
RecruiterProfileOf(u) ==
    IF \E r \in DOMAIN RecruiterProfiles : RecruiterProfiles[r].user_id = u
    THEN CHOOSE r \in DOMAIN RecruiterProfiles : RecruiterProfiles[r].user_id = u
    ELSE NoId


\* valid_statuses of change_application_status
ValidStatuses == {"applied", "shortlisted", "rejected", "interview_scheduled", "selected"}

\* Column default of Application.status
DefaultStatus == "applied"

\* Column default of Interview.status
DefaultInterviewStatus == "scheduled"

Workers == {1, 2}

Idle == [op |-> "none"]

NoSnapshot == [taken |-> FALSE]

\* The connections a client may open
Sockets == 1..MaxSockets

\* A connection no client has opened yet
NewSocket == [state |-> "new", token |-> Null, user_id |-> NoId, code |-> 0, peer |-> "here"]

Snapshot ==
    [taken |-> TRUE, jobs |-> jobs, applications |-> applications, history |-> history,
     interviews |-> interviews, notifications |-> notifications, resumes |-> resumes]

\* seed_data.seed: every seeded job is approved and active; one per recruiter
\* here. skills_required is the JSON list of the job's skills, of which the
\* code reads the elements only; description is the text, word by word.
SeedJobs == <<[recruiter_id |-> 1, is_approved |-> TRUE, is_active |-> TRUE,
               skills_required |-> {"Python", "SQL"},
               description |-> <<"Python", "and", "SQL", "data">>],
              [recruiter_id |-> 2, is_approved |-> TRUE, is_active |-> TRUE,
               skills_required |-> {"React"},
               description |-> <<"React", "UI">>]>>

\* The accounts above as rows of the table users: role and is_active
SeedUsers == <<[role |-> "user", is_active |-> TRUE], [role |-> "user", is_active |-> TRUE],
               [role |-> "recruiter", is_active |-> TRUE],
               [role |-> "recruiter", is_active |-> TRUE],
               [role |-> "recruiter", is_active |-> TRUE],
               [role |-> "admin", is_active |-> TRUE]>>

-----------------------------------------------------------------------------
\* The database without accounts, jobs and applications, no request served,
\* no connection open
InitTables ==
    /\ history = <<>>
    /\ interviews = <<>>
    /\ notifications = <<>>
    /\ resumes = <<>>
    /\ interview_preps = <<>>
    /\ pc = [p \in Workers |-> "idle"]
    /\ req = [p \in Workers |-> Idle]
    /\ pre = [p \in Workers |-> NoSnapshot]
    /\ active_connections = <<>>
    /\ websockets = [w \in Sockets |-> NewSocket]
    /\ pushes = <<>>

\* The database with the accounts above, without jobs and applications
InitOthers ==
    /\ users = SeedUsers
    /\ InitTables

Init ==
    /\ jobs = SeedJobs
    /\ applications = <<>>
    /\ InitOthers

-----------------------------------------------------------------------------
(* Helpers shared by the handlers *)

\* Workers busy with a request
InFlight == Cardinality({q \in Workers : pc[q] # "idle"})

\* The model's bound on a table: a request that may insert starts only while
\* the table has room for its row and for one row of every request in flight.
HasRoom(table, max) == Len(table) + InFlight < max

\* The handler returns (or raises): the response is kept until the worker is released.
Respond(p, r, response) ==
    /\ pc' = [pc EXCEPT ![p] = "done"]
    /\ req' = [req EXCEPT ![p] = [r EXCEPT !.response = response]]

\* A handler that runs on a worker thread returns; it has not touched the
\* live channel, and only interview_preparation writes interview_preps.
Finish(p, r, response) ==
    /\ Respond(p, r, response)
    /\ UNCHANGED <<live, interview_preps, users>>

\* The worker moves on to the code after a commit.
Goto(p, label, r) ==
    /\ pc' = [pc EXCEPT ![p] = label]
    /\ req' = [req EXCEPT ![p] = r]
    /\ UNCHANGED <<live, interview_preps, users>>

\* The first request step: the handler is entered and the tables it sees are recorded.
Enter(p) ==
    /\ pc[p] = "idle"
    /\ pre' = [pre EXCEPT ![p] = Snapshot]

\* services.notification_service.create_notification: the row it adds and commits
NotificationRow(user_id, type, reference_id, reference_type) ==
    [user_id |-> user_id, type |-> type, is_read |-> FALSE,
     reference_id |-> reference_id, reference_type |-> reference_type]

create_notification(ns, user_id, type, reference_id, reference_type) ==
    Append(ns, NotificationRow(user_id, type, reference_id, reference_type))

\* ids a request may name: every row that can exist, and one that cannot
JobIds == 1..(Len(SeedJobs) + 1)
ApplicationIds == 1..(MaxApplications + 1)

\* OpenJob without the filter on is_active
OpenJob_ApprovedOnly(job_id) ==
    /\ job_id \in DOMAIN jobs
    /\ jobs[job_id].is_approved

\* db.query(Job).filter(Job.id == job_id, Job.is_approved == True, Job.is_active == True).first()
OpenJob(job_id) ==
    /\ job_id \in DOMAIN jobs
    /\ jobs[job_id].is_approved
    /\ jobs[job_id].is_active

\* db.query(Application).filter(user_id == u, job_id == j).first() is not None
HasApplied(u, job_id) ==
    \E a \in DOMAIN applications :
        applications[a].user_id = u /\ applications[a].job_id = job_id

\* The resume apply_to_job attaches: the named one if it is the caller's, else
\* the caller's primary one; NoId when the query finds none.
Min(S) == CHOOSE x \in S : \A y \in S : x <= y

AttachedResume(u, resume_id) ==
    LET named == {r \in DOMAIN resumes : r = resume_id /\ resumes[r].user_id = u}
        primary == {r \in DOMAIN resumes : resumes[r].user_id = u /\ resumes[r].is_primary}
        found == IF resume_id # NoId THEN named ELSE primary
    IN  IF found = {} THEN NoId ELSE Min(found)

-----------------------------------------------------------------------------
(* POST /users/jobs/{job_id}/apply *)

ApplicationRow(u, job_id, resume_id) ==
    [user_id |-> u, job_id |-> job_id, resume_id |-> resume_id, status |-> DefaultStatus]

InitialHistoryRow(application_id, u) ==
    [application_id |-> application_id, old_status |-> Null, new_status |-> "applied",
     changed_by |-> u, notes |-> "Application submitted"]

\* ApplyChecks without the duplicate check
ApplyChecks_NoDuplicateCheck(u, job_id) ==
    IF ~OpenJob(job_id) THEN "not_found" ELSE "ok"

\* The job check and the duplicate check
ApplyChecks(u, job_id) ==
    IF ~OpenJob(job_id) THEN "not_found"
    ELSE IF HasApplied(u, job_id) THEN "already_applied"
    ELSE "ok"

RequestedResumes == {NoId, 1}

\* The handler up to its first commit, for requests drawn from the given sets
ApplyStartWith(p, callers, resume_ids) ==
    /\ Enter(p)
    /\ \E u \in callers, job_id \in JobIds, resume_id \in resume_ids :
        LET r == [op |-> "apply", user |-> u, job_id |-> job_id, resume_id |-> resume_id,
                  named_resume_id |-> resume_id, application_id |-> NoId,
                  response |-> "pending"]
            checked == ApplyChecks(u, job_id)
        IN  IF checked # "ok"
            THEN Finish(p, r, checked)
            ELSE /\ HasRoom(applications, MaxApplications)
                 /\ HasRoom(history, MaxHistory)
                 /\ HasRoom(notifications, MaxNotifications)
                 /\ Goto(p, "apply_insert", [r EXCEPT !.resume_id = AttachedResume(u, resume_id)])
    /\ UNCHANGED tables

ApplyStart(p) == ApplyStartWith(p, Applicants, RequestedResumes)

ApplyInsert(p) ==
    /\ pc[p] = "apply_insert"
    /\ applications' = Append(applications,
                              ApplicationRow(req[p].user, req[p].job_id, req[p].resume_id))
    /\ Goto(p, "apply_history", [req[p] EXCEPT !.application_id = Len(applications) + 1])
    /\ UNCHANGED <<jobs, history, interviews, notifications, resumes, pre>>

\* ApplyHistory that puts the new row before the rows that exist
ApplyHistory_Prepends(p) ==
    /\ pc[p] = "apply_history"
    /\ history' = <<InitialHistoryRow(req[p].application_id, req[p].user)>> \o history
    /\ Goto(p, "apply_notify", req[p])
    /\ UNCHANGED <<jobs, applications, interviews, notifications, resumes, pre>>

ApplyHistory(p) ==
    /\ pc[p] = "apply_history"
    /\ history' = Append(history, InitialHistoryRow(req[p].application_id, req[p].user))
    /\ Goto(p, "apply_notify", req[p])
    /\ UNCHANGED <<jobs, applications, interviews, notifications, resumes, pre>>

\* ApplyNotifiedUser taking the recruiter profile's id for the account's id
ApplyNotifiedUser_ProfileId(job_id) == jobs[job_id].recruiter_id

\* The account apply_to_job notifies: the user of the job's recruiter profile
ApplyNotifiedUser(job_id) == RecruiterProfiles[jobs[job_id].recruiter_id].user_id

ApplyNotify(p) ==
    /\ pc[p] = "apply_notify"
    /\ IF jobs[req[p].job_id].recruiter_id \in DOMAIN RecruiterProfiles
       THEN notifications' = create_notification(notifications, ApplyNotifiedUser(req[p].job_id),
                                "new_applicant", req[p].application_id, "application")
       ELSE UNCHANGED notifications
    /\ Finish(p, req[p], "ok")
    /\ UNCHANGED <<jobs, applications, history, interviews, resumes, pre>>

-----------------------------------------------------------------------------
(* PUT /recruiter/applications/{application_id}/status *)

\* Application.job_id names a job owned by the caller's recruiter profile
OwnsJobOf(caller, application_id) ==
    LET job_id == applications[application_id].job_id
    IN  /\ job_id \in DOMAIN jobs
        /\ jobs[job_id].recruiter_id = RecruiterProfileOf(caller)

\* if not job or job.recruiter_id != recruiter.id: raise 403. Where the job
\* exists and the caller has no recruiter profile, recruiter is None and
\* recruiter.id raises AttributeError: the request ends in an internal error.
OwnershipCheck(caller, application_id) ==
    IF applications[application_id].job_id \notin DOMAIN jobs THEN "forbidden"
    ELSE IF RecruiterProfileOf(caller) = NoId THEN "error"
    ELSE IF ~OwnsJobOf(caller, application_id) THEN "forbidden"
    ELSE "ok"

\* ChangeStatusChecks without the check against valid_statuses
ChangeStatusChecks_NoValidation(caller, application_id, status) ==
    IF application_id \notin DOMAIN applications THEN "not_found"
    ELSE OwnershipCheck(caller, application_id)

\* The checks of change_application_status, in the order the handler makes them
ChangeStatusChecks(caller, application_id, status) ==
    IF status \notin ValidStatuses THEN "invalid_status"
    ELSE IF application_id \notin DOMAIN applications THEN "not_found"
    ELSE OwnershipCheck(caller, application_id)

\* StatusHistoryRow with old_status read after the status was assigned
StatusHistoryRow_OldReadLate(application_id, old_status, new_status, caller, notes) ==
    [application_id |-> application_id, old_status |-> new_status, new_status |-> new_status,
     changed_by |-> caller, notes |-> notes]

StatusHistoryRow(application_id, old_status, new_status, caller, notes) ==
    [application_id |-> application_id, old_status |-> old_status, new_status |-> new_status,
     changed_by |-> caller, notes |-> notes]

\* application.status = value; db.commit()
SetStatus(apps, application_id, value) ==
    [apps EXCEPT ![application_id].status = value]

\* A status the enum does not hold stands for every such value a client may send.
RequestedStatuses == ValidStatuses \cup {"hired"}

RequestedNotes == {Null, "note"}

\* The handler up to its first commit, for requests drawn from the given
\* sets, while the history has fewer than rows rows and the notifications
\* fewer than alerts
ChangeStatusRequest(p, callers, statuses, notes_sent, rows, alerts) ==
    /\ Enter(p)
    /\ \E caller \in callers, application_id \in ApplicationIds,
          status \in statuses, notes \in notes_sent :
        LET r == [op |-> "change_status", user |-> caller, application_id |-> application_id,
                  status |-> status, notes |-> notes, old_status |-> Null,
                  response |-> "pending"]
            checked == ChangeStatusChecks(caller, application_id, status)
        IN  IF checked # "ok"
            THEN Finish(p, r, checked)
            ELSE /\ HasRoom(history, rows)
                 /\ HasRoom(notifications, alerts)
                 /\ Goto(p, "status_update",
                         [r EXCEPT !.old_status = applications[application_id].status])
    /\ UNCHANGED tables

ChangeStatusStartWith(p, callers, statuses, notes_sent) ==
    ChangeStatusRequest(p, callers, statuses, notes_sent, MaxHistory, MaxNotifications)

ChangeStatusStart(p) ==
    ChangeStatusStartWith(p, RecruiterUsers, RequestedStatuses, RequestedNotes)

\* ChangeStatusUpdate that leaves a selected or rejected application as it is
ChangeStatusUpdate_TerminalKept(p) ==
    /\ pc[p] = "status_update"
    /\ applications' =
            IF applications[req[p].application_id].status \in {"selected", "rejected"}
            THEN applications
            ELSE SetStatus(applications, req[p].application_id, req[p].status)
    /\ Goto(p, "status_history", req[p])
    /\ UNCHANGED <<jobs, history, interviews, notifications, resumes, pre>>

\* application.status = status_update.status; db.commit(): the session
\* writes the column when the value assigned differs from the one it loaded
ChangeStatusUpdate(p) ==
    /\ pc[p] = "status_update"
    /\ applications' = IF req[p].status = req[p].old_status
                       THEN applications
                       ELSE SetStatus(applications, req[p].application_id, req[p].status)
    /\ Goto(p, "status_history", req[p])
    /\ UNCHANGED <<jobs, history, interviews, notifications, resumes, pre>>

\* ChangeStatusHistory going on to the notification without the history row
ChangeStatusHistory_NoRow(p) ==
    /\ pc[p] = "status_history"
    /\ Goto(p, "status_notify", req[p])
    /\ UNCHANGED <<tables, pre>>

ChangeStatusHistory(p) ==
    /\ pc[p] = "status_history"
    /\ history' = Append(history, StatusHistoryRow(req[p].application_id, req[p].old_status,
                                                   req[p].status, req[p].user, req[p].notes))
    /\ Goto(p, "status_notify", req[p])
    /\ UNCHANGED <<jobs, applications, interviews, notifications, resumes, pre>>

ChangeStatusNotify(p) ==
    /\ pc[p] = "status_notify"
    /\ notifications' = create_notification(notifications,
                            applications[req[p].application_id].user_id,
                            "application_update", req[p].application_id, "application")
    /\ Finish(p, req[p], "ok")
    /\ UNCHANGED <<jobs, applications, history, interviews, resumes, pre>>

-----------------------------------------------------------------------------
(* POST /interviews/schedule *)

\* uuid.uuid4().hex: some non-empty hexadecimal string
UuidHex == {"3fa9c1", "07bd24"}

ScheduleChecks(caller, application_id) ==
    IF application_id \notin DOMAIN applications THEN "not_found"
    ELSE OwnershipCheck(caller, application_id)

\* InterviewRow that does not store the token
InterviewRow_NoToken(application_id, room_id, meeting_token) ==
    [application_id |-> application_id, meeting_url |-> room_id,
     meeting_token |-> Null, status |-> DefaultInterviewStatus]

InterviewRow(application_id, room_id, meeting_token) ==
    [application_id |-> application_id, meeting_url |-> room_id,
     meeting_token |-> meeting_token, status |-> DefaultInterviewStatus]

\* ScheduledStatus misspelt
ScheduledStatus_Misspelt == "interview-scheduled"

\* The status schedule_interview writes
ScheduledStatus == "interview_scheduled"

ScheduleStart(p) ==
    /\ Enter(p)
    /\ \E caller \in RecruiterUsers, application_id \in ApplicationIds :
        LET r == [op |-> "schedule", user |-> caller, application_id |-> application_id,
                  interview_id |-> NoId, response |-> "pending"]
            checked == ScheduleChecks(caller, application_id)
        IN  IF checked # "ok"
            THEN Finish(p, r, checked)
            ELSE /\ HasRoom(interviews, MaxInterviews)
                 /\ HasRoom(notifications, MaxNotifications)
                 /\ Goto(p, "schedule_commit", r)
    /\ UNCHANGED tables

\* ScheduleCommit that also logs the transition in the status history
ScheduleCommit_WithHistory(p) ==
    /\ pc[p] = "schedule_commit"
    /\ \E room_id \in UuidHex, meeting_token \in UuidHex :
        interviews' = Append(interviews,
                             InterviewRow(req[p].application_id, room_id, meeting_token))
    /\ applications' = SetStatus(applications, req[p].application_id, ScheduledStatus)
    /\ history' = Append(history,
                         StatusHistoryRow(req[p].application_id,
                                          applications[req[p].application_id].status,
                                          ScheduledStatus, req[p].user, Null))
    /\ Goto(p, "schedule_notify", [req[p] EXCEPT !.interview_id = Len(interviews) + 1])
    /\ UNCHANGED <<jobs, notifications, resumes, pre>>

\* db.add(interview); application.status = "interview_scheduled"; db.commit()
ScheduleCommit(p) ==
    /\ pc[p] = "schedule_commit"
    /\ \E room_id \in UuidHex, meeting_token \in UuidHex :
        interviews' = Append(interviews,
                             InterviewRow(req[p].application_id, room_id, meeting_token))
    /\ applications' = SetStatus(applications, req[p].application_id, ScheduledStatus)
    /\ Goto(p, "schedule_notify", [req[p] EXCEPT !.interview_id = Len(interviews) + 1])
    /\ UNCHANGED <<jobs, history, notifications, resumes, pre>>

ScheduleNotify(p) ==
    /\ pc[p] = "schedule_notify"
    /\ notifications' = create_notification(notifications,
                            applications[req[p].application_id].user_id,
                            "interview_scheduled", req[p].interview_id, "interview")
    /\ Finish(p, req[p], "ok")
    /\ UNCHANGED <<jobs, applications, history, interviews, resumes, pre>>

-----------------------------------------------------------------------------
(* PUT /admin/jobs/{job_id}/approve and PUT /recruiter/jobs/{job_id} *)

\* job.is_approved = approval.is_approved; db.commit()
ApproveJob(p) ==
    /\ Enter(p)
    /\ \E job_id \in JobIds, is_approved \in BOOLEAN :
        LET r == [op |-> "approve", job_id |-> job_id, is_approved |-> is_approved,
                  response |-> "pending"]
        IN  IF job_id \notin DOMAIN jobs
            THEN Finish(p, r, "not_found") /\ UNCHANGED jobs
            ELSE /\ HasRoom(notifications, MaxNotifications)
                 /\ jobs' = [jobs EXCEPT ![job_id].is_approved = is_approved]
                 /\ Goto(p, "approve_notify", r)
    /\ UNCHANGED <<applications, history, interviews, notifications, resumes>>

ApproveNotify(p) ==
    /\ pc[p] = "approve_notify"
    /\ IF jobs[req[p].job_id].recruiter_id \in DOMAIN RecruiterProfiles
       THEN notifications' = create_notification(notifications, ApplyNotifiedUser(req[p].job_id),
                                "job_approved", req[p].job_id, "job")
       ELSE UNCHANGED notifications
    /\ Finish(p, req[p], "ok")
    /\ UNCHANGED <<jobs, applications, history, interviews, resumes, pre>>

\* The fields a request body may carry that JobUpdate declares, and that
\* JobCreate declares; a field the schema does not declare is dropped when the
\* body is parsed.
JobUpdateFields_WithApproval == {"is_active", "is_approved"}

JobUpdateFields == {"is_active"}

JobCreateFields == {"skills_required", "description"}

\* job_data.model_dump(...) of a body parsed by a schema with these fields
model_dump(body, fields) == [f \in (DOMAIN body) \cap fields |-> body[f]]

\* for key, value in update_data.items(): setattr(row, key, value)
setattrs(row, update_data) ==
    [f \in DOMAIN row |-> IF f \in DOMAIN update_data THEN update_data[f] ELSE row[f]]

\* update_job: only the owning recruiter's job is found; recruiter.id raises
\* for a caller without a recruiter profile
UpdateJobFrom(p, bodies) ==
    /\ Enter(p)
    /\ \E caller \in RecruiterUsers, job_id \in JobIds, body \in bodies :
        LET r == [op |-> "update_job", user |-> caller, job_id |-> job_id,
                  is_active |-> body.is_active, response |-> "pending"]
        IN  IF RecruiterProfileOf(caller) = NoId
            THEN Finish(p, r, "error") /\ UNCHANGED jobs
            ELSE IF job_id \in DOMAIN jobs
                    /\ jobs[job_id].recruiter_id = RecruiterProfileOf(caller)
            THEN /\ jobs' = [jobs EXCEPT
                                ![job_id] = setattrs(@, model_dump(body, JobUpdateFields))]
                 /\ Finish(p, r, "ok")
            ELSE Finish(p, r, "not_found") /\ UNCHANGED jobs
    /\ UNCHANGED <<applications, history, interviews, notifications, resumes>>

\* update_job with is_active set
UpdateJob(p) == UpdateJobFrom(p, {[is_active |-> b] : b \in BOOLEAN})

\* Job(recruiter_id=recruiter.id, **job_data.model_dump()) with the Column
\* defaults of a field the constructor is not given, is_approved True here
JobRow_PreApproved(recruiter_id, data) ==
    setattrs([recruiter_id |-> recruiter_id, is_approved |-> TRUE, is_active |-> TRUE,
              skills_required |-> {}, description |-> <<>>], data)

\* Job(recruiter_id=recruiter.id, **job_data.model_dump()) with the Column
\* defaults of a field the constructor is not given
JobRow(recruiter_id, data) ==
    setattrs([recruiter_id |-> recruiter_id, is_approved |-> FALSE, is_active |-> TRUE,
              skills_required |-> {}, description |-> <<>>], data)

\* The bodies a recruiter posts to create a job: the declared fields, with or
\* without an approval flag of the recruiter's own
CreatedBodies ==
    { [skills_required |-> {"Python"}, description |-> <<"Python">>],
      [skills_required |-> {"Python"}, description |-> <<"Python">>, is_approved |-> TRUE] }

\* The bodies a recruiter puts to update a job
UpdatedBodies ==
    { [is_active |-> TRUE], [is_active |-> FALSE],
      [is_active |-> TRUE, is_approved |-> TRUE] }

\* create_job: 404 for a caller without a recruiter profile
CreateJob(p) ==
    /\ Enter(p)
    /\ Len(jobs) < MaxJobs
    /\ \E caller \in RecruiterUsers, body \in CreatedBodies :
        LET r == [op |-> "create_job", user |-> caller, job_id |-> Len(jobs) + 1,
                  response |-> "pending"]
        IN  IF RecruiterProfileOf(caller) = NoId
            THEN Finish(p, r, "not_found") /\ UNCHANGED jobs
            ELSE /\ jobs' = Append(jobs, JobRow(RecruiterProfileOf(caller),
                                                model_dump(body, JobCreateFields)))
                 /\ Finish(p, r, "ok")
    /\ UNCHANGED <<applications, history, interviews, notifications, resumes>>

-----------------------------------------------------------------------------
(* PUT /notifications/read-all and PUT /notifications/{notification_id}/read *)

\* UnreadOf without the filter on the user
UnreadOf_AnyUser(ns, u) == {n \in DOMAIN ns : ~ns[n].is_read}

\* The rows mark_all_as_read's filter selects
UnreadOf(ns, u) == {n \in DOMAIN ns : ns[n].user_id = u /\ ~ns[n].is_read}

\* services.notification_service.get_unread_count
get_unread_count(ns, u) == Cardinality(UnreadOf(ns, u))

\* The table after mark_all_as_read's UPDATE
mark_all_as_read(ns, u) ==
    [n \in DOMAIN ns |-> IF n \in UnreadOf(ns, u) THEN [ns[n] EXCEPT !.is_read = TRUE] ELSE ns[n]]

MarkAllRead(p) ==
    /\ Enter(p)
    /\ \E u \in AllUsers :
        /\ notifications' = mark_all_as_read(notifications, u)
        /\ Finish(p, [op |-> "read_all", user |-> u,
                      count |-> get_unread_count(notifications, u), response |-> "pending"], "ok")
    /\ UNCHANGED <<jobs, applications, history, interviews, resumes>>

\* services.notification_service.mark_as_read
MarkRead(p) ==
    /\ Enter(p)
    /\ \E u \in AllUsers, notification_id \in 1..(MaxNotifications + 1) :
        LET r == [op |-> "read_one", user |-> u, notification_id |-> notification_id,
                  response |-> "pending"]
        IN  IF notification_id \in DOMAIN notifications
               /\ notifications[notification_id].user_id = u
            THEN /\ notifications' = [notifications EXCEPT ![notification_id].is_read = TRUE]
                 /\ Finish(p, r, "ok")
            ELSE Finish(p, r, "not_found") /\ UNCHANGED notifications
    /\ UNCHANGED <<jobs, applications, history, interviews, resumes>>

-----------------------------------------------------------------------------
(* POST /users/resume/upload. Any authenticated account may upload. The      *)
(* handler's profile auto-fill writes the user_profiles table, which is not  *)
(* among the tables modelled here.                                           *)

\* allowed, the extension allow-list of upload_resume
AllowedExtensions == {".pdf", ".doc", ".docx", ".txt"}

\* Extensions a client may send: the allowed ones and one that is not
UploadedExtensions == AllowedExtensions \cup {".exe"}

\* SiblingResumes without the filter on the user
SiblingResumes_AllUsers(rs, u) == DOMAIN rs

\* db.query(Resume).filter(Resume.user_id == u): the rows the UPDATE reaches
SiblingResumes(rs, u) == {r \in DOMAIN rs : rs[r].user_id = u}

\* .update({"is_primary": False}) on the rows in cleared
ClearPrimary(rs, cleared) ==
    [r \in DOMAIN rs |-> IF r \in cleared THEN [rs[r] EXCEPT !.is_primary = FALSE] ELSE rs[r]]

ResumeRow(u) == [user_id |-> u, is_primary |-> TRUE]

\* upload_resume up to its await of file.read(): the extension check. The
\* handler is a coroutine; what follows the await runs on the event loop
\* without another await, so no other upload runs in between.
UploadStartBy(p, callers, extensions) ==
    /\ Enter(p)
    /\ \E u \in callers, ext \in extensions :
        LET r == [op |-> "upload", user |-> u, ext |-> ext, cleared |-> {},
                  resume_id |-> NoId, response |-> "pending"]
        IN  IF ext \notin AllowedExtensions
            THEN Finish(p, r, "bad_request")
            ELSE /\ HasRoom(resumes, MaxResumes)
                 /\ Goto(p, "upload_commit", r)
    /\ UNCHANGED tables

UploadStart(p) == UploadStartBy(p, AllUsers, UploadedExtensions)

\* UploadCommit clearing the flags of the resumes the user had when the
\* request arrived
UploadCommit_SiblingsAtArrival(p) ==
    /\ pc[p] = "upload_commit"
    /\ LET cleared == SiblingResumes(pre[p].resumes, req[p].user)
       IN  /\ resumes' = Append(ClearPrimary(resumes, cleared), ResumeRow(req[p].user))
           /\ Finish(p, [req[p] EXCEPT !.resume_id = Len(resumes) + 1,
                                       !.cleared = cleared], "ok")
    /\ UNCHANGED <<jobs, applications, history, interviews, notifications, pre>>

\* The UPDATE that clears the caller's primary flags, db.add(resume) and
\* db.commit(), in one piece
UploadCommit(p) ==
    /\ pc[p] = "upload_commit"
    /\ LET cleared == SiblingResumes(resumes, req[p].user)
       IN  /\ resumes' = Append(ClearPrimary(resumes, cleared), ResumeRow(req[p].user))
           /\ Finish(p, [req[p] EXCEPT !.resume_id = Len(resumes) + 1,
                                       !.cleared = cleared], "ok")
    /\ UNCHANGED <<jobs, applications, history, interviews, notifications, pre>>

-----------------------------------------------------------------------------
(* services.ai_service: the scoring of a candidate against a job. Scores are *)
(* kept in tenths, the precision round(x, 1) leaves: 667 stands for 66.7.    *)

\* str.lower() and str.title() on the strings of the model
Lower(s) ==
    CASE s = "Python" -> "python"
      [] s \in {"SQL", "Sql"} -> "sql"
      [] s = "React" -> "react"
      [] s = "UI" -> "ui"
      [] s = "Data" -> "data"
      [] OTHER -> s

Title(s) ==
    CASE Lower(s) = "python" -> "Python"
      [] Lower(s) = "sql" -> "Sql"
      [] Lower(s) = "react" -> "React"
      [] Lower(s) = "ui" -> "Ui"
      [] Lower(s) = "data" -> "Data"
      [] OTHER -> s

\* LowerAll that compares the skills as they are written
LowerAll_CaseSensitive(skills) == skills

\* {s.lower() for s in skills}
LowerAll(skills) == {Lower(s) : s \in skills}

\* [s.title() for s in skills]
TitleAll(skills) == {Title(s) : s \in skills}

\* Words of the model with fewer than three letters
ShortWords == {"ui"}

\* stop_words of get_resume_match_score
StopWords ==
    {"the", "and", "for", "are", "but", "not", "you", "all", "can", "has", "her", "was",
     "one", "our", "out", "with", "have", "this", "will", "your", "from", "they", "been",
     "said", "each", "which"}

\* set(re.findall(r'\b[a-zA-Z]{3,}\b', text.lower())) - stop_words
Words(text) ==
    {Lower(text[i]) : i \in DOMAIN text} \ (ShortWords \cup StopWords)

\* round(x, 1) of the quotient num / den, in tenths; with the fewer than
\* sixteen skills or words of the model no quotient falls on a half
RoundTenths(num, den) == (2 * 10 * num + den) \div (2 * den)

\* (len(part) / len(whole) * 100) if whole else 0, as a fraction
Percentage(part, whole) ==
    IF whole = {} THEN [num |-> 0, den |-> 1]
    ELSE [num |-> 100 * Cardinality(part), den |-> Cardinality(whole)]

\* services.ai_service.get_resume_match_score, without its advisory strings
get_resume_match_score(user_skills, resume_text, job) ==
    IF job.skills_required = {} /\ job.description = <<>>
    THEN [overall_score |-> 0, skill_match_score |-> 0, keyword_match_score |-> 0,
          matched_skills |-> {}, missing_skills |-> job.skills_required]
    ELSE LET user_skills_lower == LowerAll(user_skills)
             job_skills_lower == LowerAll(job.skills_required)
             matched == user_skills_lower \cap job_skills_lower
             missing == job_skills_lower \ user_skills_lower
             skill_score == Percentage(matched, job_skills_lower)
             job_words == Words(job.description)
             keyword_score == Percentage(job_words \cap Words(resume_text), job_words)
         IN  [overall_score |->
                  RoundTenths(7 * skill_score.num * keyword_score.den
                                  + 3 * keyword_score.num * skill_score.den,
                              10 * skill_score.den * keyword_score.den),
              skill_match_score |-> RoundTenths(skill_score.num, skill_score.den),
              keyword_match_score |-> RoundTenths(keyword_score.num, keyword_score.den),
              matched_skills |-> TitleAll(matched),
              missing_skills |-> TitleAll(missing)]

\* services.ai_service.get_skill_gap_analysis, without its learning resources
get_skill_gap_analysis(user_skills, job) ==
    LET user_skills_lower == LowerAll(user_skills)
        job_skills_lower == LowerAll(job.skills_required)
        missing == job_skills_lower \ user_skills_lower
        gap == Percentage(missing, job_skills_lower)
    IN  [user_skills |-> TitleAll(user_skills_lower),
         required_skills |-> TitleAll(job_skills_lower),
         matched_skills |-> TitleAll(user_skills_lower \cap job_skills_lower),
         missing_skills |-> TitleAll(missing),
         gap_percentage |-> RoundTenths(gap.num, gap.den),
         learning_suggestions |-> TitleAll(missing)]

\* Skills generate_interview_prep holds technical questions for
QuestionSkills == {"python", "javascript", "react", "sql", "machine learning"}

\* services.ai_service.generate_interview_prep: the skills its technical
\* questions are about, and the focus areas (no seeded title holds "senior")
generate_interview_prep(job, user_skills) ==
    [technical |-> {Lower(s) : s \in job.skills_required} \cap QuestionSkills,
     focus_areas |-> (IF job.skills_required # {} THEN job.skills_required
                      ELSE {"Problem Solving", "Communication"})
                         \cup {"Coding Fundamentals"}]

-----------------------------------------------------------------------------
(* services.ai_service.get_personalized_recommendations *)

\* limit: int = 10
DefaultLimit == 10

\* The first limit elements of a list: list[:limit]
Truncate(list, limit) == SubSeq(list, 1, IF Len(list) < limit THEN Len(list) ELSE limit)

\* The orders in which a query may return the rows S
Orders(S) ==
    {o \in [1..Cardinality(S) -> S] : \A i, j \in 1..Cardinality(S) : o[i] = o[j] => i = j}

\* .order_by(Job.created_at.desc()): the jobs S, the latest created first
RECURSIVE RecentFirst(_)
RecentFirst(S) ==
    IF S = {} THEN <<>>
    ELSE LET latest == CHOOSE j \in S : \A k \in S : k <= j
         IN  <<latest>> \o RecentFirst(S \ {latest})

\* Job.is_approved == True, Job.is_active == True
OpenJobs == {j \in DOMAIN jobs : jobs[j].is_approved /\ jobs[j].is_active}

\* applied_job_ids
AppliedJobIds(user_id) ==
    {applications[a].job_id : a \in {b \in DOMAIN applications :
                                          applications[b].user_id = user_id}}

\* The fallback of get_personalized_recommendations for a user without skills
RecentJobEntry(j) == [job_id |-> j, match_score |-> 0, matched_skills |-> {}]

\* Candidates that also returns the jobs the user has applied to
Candidates_WithApplied(user_id) == OpenJobs

\* The jobs of the second query: approved, active and not applied to
Candidates(user_id) == OpenJobs \ AppliedJobIds(user_id)

\* The entry the loop appends for job j, if any
ScoredEntry(j, user_skills_lower) ==
    LET job_skills_lower == LowerAll(jobs[j].skills_required)
        matched == user_skills_lower \cap job_skills_lower
        score == Percentage(matched, job_skills_lower)
    IN  [job_id |-> j, match_score |-> RoundTenths(score.num, score.den),
         matched_skills |-> TitleAll(matched)]

\* Scored is the list the loop builds over the jobs in the order met
RECURSIVE Scored(_, _)
Scored(met, user_skills_lower) ==
    IF met = <<>> THEN <<>>
    ELSE LET j == Head(met)
             rest == Scored(Tail(met), user_skills_lower)
             job_skills_lower == LowerAll(jobs[j].skills_required)
             score == Percentage(user_skills_lower \cap job_skills_lower, job_skills_lower)
         IN  IF job_skills_lower = {} THEN rest
             ELSE IF score.num > 0 THEN <<ScoredEntry(j, user_skills_lower)>> \o rest
             ELSE rest

\* SortByScore that puts a job before the jobs of equal score met earlier
RECURSIVE SortByScore_Unstable(_)
SortByScore_Unstable(entries) ==
    IF entries = <<>> THEN <<>>
    ELSE LET e == entries[Len(entries)]
             sorted == SortByScore_Unstable(SubSeq(entries, 1, Len(entries) - 1))
             before == {i \in DOMAIN sorted : sorted[i].match_score > e.match_score}
         IN  SubSeq(sorted, 1, Cardinality(before)) \o <<e>>
                 \o SubSeq(sorted, Cardinality(before) + 1, Len(sorted))

\* scored_jobs.sort(key=lambda x: x["match_score"], reverse=True): a stable sort
RECURSIVE SortByScore(_)
SortByScore(entries) ==
    IF entries = <<>> THEN <<>>
    ELSE LET e == entries[Len(entries)]
             sorted == SortByScore(SubSeq(entries, 1, Len(entries) - 1))
             before == {i \in DOMAIN sorted : sorted[i].match_score >= e.match_score}
         IN  SubSeq(sorted, 1, Cardinality(before)) \o <<e>>
                 \o SubSeq(sorted, Cardinality(before) + 1, Len(sorted))

\* get_personalized_recommendations; met is the order in which the second
\* query, which states none, returns its rows
get_personalized_recommendations(user_id, user_skills, limit, met) ==
    IF user_skills = {}
    THEN LET recent == Truncate(RecentFirst(OpenJobs), limit)
         IN  [i \in DOMAIN recent |-> RecentJobEntry(recent[i])]
    ELSE Truncate(SortByScore(Scored(met, LowerAll(user_skills))), limit)

-----------------------------------------------------------------------------
(* The endpoints that show jobs to applicants: GET /users/jobs/search,       *)
(* GET /ai/recommendations, /ai/resume-match, /ai/skill-gap and              *)
(* /ai/interview-prep. _get_user_skills reads the caller's skills off the    *)
(* profile and the primary resume's parsed skills and text, columns no       *)
(* modelled handler writes: they come with the request here.                 *)

\* What _get_user_skills may return
CandidateSkills == SUBSET {"python", "SQL", "react"}
ResumeTexts == {<<>>, <<"Python", "Data", "and">>}

\* The skills filter of a search: none, or the comma-separated skills
SearchedSkills == {{}, {"python"}, {"React", "sql"}}

\* The lower-cased JSON text of the job's skills contains the lower-cased
\* skill; no skill of the model is part of another one
HasSkill(j, skill) == Lower(skill) \in LowerAll(jobs[j].skills_required)

\* base_query of search_jobs with the skills filter
SearchedJobs(skills) ==
    {j \in OpenJobs : skills # {} => \E skill \in skills : HasSkill(j, skill)}

\* search_jobs with its default order and first page
SearchJobs(p) ==
    /\ Enter(p)
    /\ \E skills \in SearchedSkills :
        Finish(p, [op |-> "search", skills |-> skills,
                   result |-> RecentFirst(SearchedJobs(skills)),
                   total_count |-> Cardinality(SearchedJobs(skills)),
                   response |-> "pending"], "ok")
    /\ UNCHANGED tables

\* get_recommendations, called with a limit out of limits
RecommendWith(p, limits) ==
    /\ Enter(p)
    /\ \E u \in Applicants, skills \in CandidateSkills, limit \in limits :
        \E met \in IF skills = {} THEN {<<>>} ELSE Orders(Candidates(u)) :
            Finish(p, [op |-> "recommend", user |-> u, skills |-> skills, limit |-> limit,
                       met |-> met,
                       result |-> get_personalized_recommendations(u, skills, limit, met),
                       response |-> "pending"], "ok")
    /\ UNCHANGED tables

\* GET /ai/recommendations leaves the limit at its default
Recommend(p) == RecommendWith(p, {DefaultLimit})

\* db.query(Job).filter(Job.id == job_id).first() of the three endpoints below
JobById(job_id) == job_id \in DOMAIN jobs

\* GET /ai/resume-match/{job_id}
ResumeMatch(p) ==
    /\ Enter(p)
    /\ \E u \in Applicants, job_id \in JobIds, skills \in CandidateSkills,
          resume_text \in ResumeTexts :
        LET r == [op |-> "resume_match", user |-> u, job_id |-> job_id, skills |-> skills,
                  resume_text |-> resume_text, response |-> "pending"]
        IN  IF ~JobById(job_id)
            THEN Finish(p, r, "not_found")
            ELSE Finish(p, r @@ [result |-> get_resume_match_score(skills, resume_text,
                                                                   jobs[job_id])], "ok")
    /\ UNCHANGED tables

\* GET /ai/skill-gap/{job_id}
SkillGap(p) ==
    /\ Enter(p)
    /\ \E u \in Applicants, job_id \in JobIds, skills \in CandidateSkills :
        LET r == [op |-> "skill_gap", user |-> u, job_id |-> job_id, skills |-> skills,
                  response |-> "pending"]
        IN  IF ~JobById(job_id)
            THEN Finish(p, r, "not_found")
            ELSE Finish(p, r @@ [result |-> get_skill_gap_analysis(skills, jobs[job_id])],
                        "ok")
    /\ UNCHANGED tables

\* GET /ai/interview-prep/{job_id}: the preparation is stored for the user
InterviewPrep(p) ==
    /\ Enter(p)
    /\ \E u \in Applicants, job_id \in JobIds, skills \in CandidateSkills :
        LET r == [op |-> "interview_prep", user |-> u, job_id |-> job_id, skills |-> skills,
                  response |-> "pending"]
        IN  IF ~JobById(job_id)
            THEN Respond(p, r, "not_found") /\ UNCHANGED interview_preps
            ELSE /\ HasRoom(interview_preps, MaxPreps)
                 /\ interview_preps' = Append(interview_preps,
                                              [user_id |-> u, job_id |-> job_id])
                 /\ Respond(p, r @@ [result |-> generate_interview_prep(jobs[job_id],
                                                                         skills)], "ok")
    /\ UNCHANGED <<jobs, applications, history, interviews, notifications, resumes, live, users>>

-----------------------------------------------------------------------------
(* WebSocket /notifications/ws and services.notification_service.manager.    *)
(* The endpoint and the pushes are coroutines of one event loop: each runs   *)
(* without interruption from one await to the next.                          *)

\* The token of the request: none at all, or a string that is not a token, a
\* token that no longer verifies, a token whose payload has no user_id, or a
\* token issued to an account by create_access_token.
NoToken == "no token"
BadTokens == {"not-a-jwt", "expired", "no user_id"}
IssuedTokens == {"user 1", "user 2"}
Tokens == {NoToken} \cup BadTokens \cup IssuedTokens

\* services.auth_service.decode_access_token: the payload, or None (valid FALSE)
NoPayload == [valid |-> FALSE, user_id |-> NoId]

decode_access_token(token) ==
    CASE token = "user 1" -> [valid |-> TRUE, user_id |-> 1]
      [] token = "user 2" -> [valid |-> TRUE, user_id |-> 2]
      [] token = "no user_id" -> [valid |-> TRUE, user_id |-> NoId]
      [] OTHER -> NoPayload

\* websocket.close(code=4001)
UnauthenticatedClose == 4001

\* token: str = Query(...): the parameter is required, so a request without it
\* fails the framework's validation of the parameters, which closes the
\* connection as a policy violation; the endpoint's body does not run.
PolicyViolationClose == 1008

\* The list object of user_id's entry: a fresh one where the entry is missing
ListIdsInUse ==
    {active_connections[u].list : u \in DOMAIN active_connections}
        \cup {pushes[t].list : t \in DOMAIN pushes}

FreshList == CHOOSE n \in 1..(Cardinality(ListIdsInUse) + 1) : n \notin ListIdsInUse

\* connect that replaces the user's list instead of appending to it
connect_Replaces(registry, w, user_id) ==
    [u \in DOMAIN registry \cup {user_id} |->
        IF u = user_id THEN [list |-> FreshList, items |-> <<w>>] ELSE registry[u]]

\* ConnectionManager.connect, after the accept
connect(registry, w, user_id) ==
    [u \in DOMAIN registry \cup {user_id} |->
        IF u # user_id THEN registry[u]
        ELSE IF u \in DOMAIN registry
             THEN [registry[u] EXCEPT !.items = Append(@, w)]
             ELSE [list |-> FreshList, items |-> <<w>>]]

\* list.remove(x): the list without the first occurrence of x
RECURSIVE Remove(_, _)
Remove(items, x) ==
    IF items = <<>> THEN <<>>
    ELSE IF Head(items) = x THEN Tail(items)
    ELSE <<Head(items)>> \o Remove(Tail(items), x)

\* ConnectionManager.disconnect
disconnect(registry, w, user_id) ==
    IF user_id \notin DOMAIN registry THEN registry
    ELSE LET rest == Remove(registry[user_id].items, w)
         IN  IF rest = <<>>
             THEN [u \in DOMAIN registry \ {user_id} |-> registry[u]]
             ELSE [registry EXCEPT ![user_id].items = rest]

\* The endpoint's checks of the token
WsChecks_AcceptsAnyPayload(token) ==
    IF ~decode_access_token(token).valid THEN "closed" ELSE "accepted"

WsChecks(token) ==
    IF ~decode_access_token(token).valid THEN "closed"
    ELSE IF decode_access_token(token).user_id = NoId THEN "closed"
    ELSE "accepted"

\* websocket_endpoint up to its first await: the token is checked; the
\* connection is closed, or accepted (the await of manager.connect).
WsOpenWith(w, tokens) ==
    /\ websockets[w].state = "new"
    /\ \E token \in tokens :
        websockets' = [websockets EXCEPT ![w] =
            IF token = NoToken
            THEN [@ EXCEPT !.state = "refused", !.token = token,
                           !.code = PolicyViolationClose]
            ELSE IF WsChecks(token) = "closed"
            THEN [@ EXCEPT !.state = "closed", !.token = token,
                           !.code = UnauthenticatedClose]
            ELSE [@ EXCEPT !.state = "accepted", !.token = token,
                           !.user_id = decode_access_token(token).user_id]]
    /\ UNCHANGED <<tables, pc, req, pre, active_connections, pushes>>

WsOpen(w) == WsOpenWith(w, Tokens)

\* manager.connect resumes after the accept and registers the connection;
\* the endpoint then waits in receive_text.
WsRegister(w) ==
    /\ websockets[w].state = "accepted"
    /\ active_connections' = connect(active_connections, w, websockets[w].user_id)
    /\ websockets' = [websockets EXCEPT ![w].state = "open"]
    /\ UNCHANGED <<tables, pc, req, pre, pushes>>

\* The client goes away; the endpoint learns of it when receive_text resumes.
ClientClose(w) ==
    /\ websockets[w].state \in {"accepted", "open"}
    /\ websockets[w].peer = "here"
    /\ websockets' = [websockets EXCEPT ![w].peer = "gone"]
    /\ UNCHANGED <<tables, pc, req, pre, active_connections, pushes>>

\* receive_text raises WebSocketDisconnect: manager.disconnect(websocket, user_id)
WsDisconnect(w) ==
    /\ websockets[w].state = "open"
    /\ websockets[w].peer = "gone"
    /\ active_connections' = disconnect(active_connections, w, websockets[w].user_id)
    /\ websockets' = [websockets EXCEPT ![w].state = "disconnected"]
    /\ UNCHANGED <<tables, pc, req, pre, pushes>>

-----------------------------------------------------------------------------
(* services.notification_service.create_notification with its push, and      *)
(* ConnectionManager.send_notification. The handlers above are plain         *)
(* functions, which the framework runs on worker threads: there the lookup   *)
(* of the event loop raises and no push is scheduled. The caller here stands *)
(* for any caller, whatever the lookup gives.                                *)

\* asyncio.get_event_loop() in the calling thread: a running loop, a loop
\* that is not running, or none (the lookup raises)
LoopStates == {"running", "not running", "no loop"}

\* SchedulePush without the try/except around the lookup
SchedulePush_Unguarded(loop) ==
    CASE loop = "running" -> "scheduled"
      [] loop = "not running" -> "skipped"
      [] OTHER -> "raised"

\* The try block of create_notification: what becomes of the push
SchedulePush(loop) ==
    IF loop = "running" THEN "scheduled" ELSE "skipped"

\* The coroutine manager.send_notification(user_id, {...}) handed to
\* ensure_future. list and next are the iterator of its for loop; sent and
\* failed record the sends it awaited, and pending the connections of the
\* user's list when the loop started on which it has awaited no send; once the
\* loop has ended, those of them that were registered still.
PushTask(user_id, notification_id) ==
    [user_id |-> user_id, notification_id |-> notification_id, state |-> "scheduled",
     list |-> NoId, next |-> 1, sent |-> {}, failed |-> {}, pending |-> {}]

\* db.add(notification); db.commit(); db.refresh(notification)
NotifyCommit(p) ==
    /\ Enter(p)
    /\ \E u \in Applicants :
        /\ Len(notifications) < MaxPushes
        /\ notifications' = create_notification(notifications, u, "application_update",
                                                1, "application")
        /\ Goto(p, "notify_push", [op |-> "notify", user |-> u,
                                   notification_id |-> Len(notifications) + 1,
                                   returned |-> Null, response |-> "pending"])
    /\ UNCHANGED <<jobs, applications, history, interviews, resumes>>

\* The try block, then return notification
NotifyPush(p) ==
    /\ pc[p] = "notify_push"
    /\ \E loop \in LoopStates :
        LET id == req[p].notification_id
            returned == IF id \in DOMAIN notifications THEN notifications[id] ELSE Null
        IN  /\ pushes' = IF SchedulePush(loop) = "scheduled"
                         THEN Append(pushes, PushTask(req[p].user, id))
                         ELSE pushes
            /\ IF SchedulePush(loop) = "raised"
               THEN Respond(p, req[p], "error")
               ELSE Respond(p, [req[p] EXCEPT !.returned = returned], "ok")
    /\ UNCHANGED <<tables, pre, active_connections, websockets>>

\* await connection.send_text(message) inside try/except Exception: pass
SendText(task, w) ==
    IF websockets[w].peer = "here"
    THEN [task EXCEPT !.sent = @ \cup {w}]
    ELSE [task EXCEPT !.failed = @ \cup {w}]

\* The connections registered for user u
RegisteredFor(u) ==
    IF u \in DOMAIN active_connections
    THEN {active_connections[u].items[i] : i \in DOMAIN active_connections[u].items}
    ELSE {}

\* send_notification up to its first await: the registry is looked up and the
\* iteration over the user's list starts with the first send.
PushStart(t) ==
    /\ pushes[t].state = "scheduled"
    /\ pushes' = [pushes EXCEPT ![t] =
          IF @.user_id \notin DOMAIN active_connections
          THEN [@ EXCEPT !.state = "done"]
          ELSE LET entry == active_connections[@.user_id]
               IN  [SendText(@, entry.items[1]) EXCEPT
                        !.state = "sending", !.list = entry.list, !.next = 2,
                        !.pending = RegisteredFor(pushes[t].user_id) \ {entry.items[1]}]]
    /\ UNCHANGED <<tables, pc, req, pre, active_connections, websockets>>

\* The list the iteration of task walks, as it is now: the user's list while
\* it is the one the iteration started on; a list that disconnect has dropped
\* from the registry is empty.
IteratedList(task) ==
    IF /\ task.user_id \in DOMAIN active_connections
       /\ active_connections[task.user_id].list = task.list
    THEN active_connections[task.user_id].items
    ELSE <<>>

\* The for loop resumes after a send: the next element of the list, if any
PushNext(t) ==
    /\ pushes[t].state = "sending"
    /\ pushes' = [pushes EXCEPT ![t] =
          IF @.next <= Len(IteratedList(@))
          THEN [SendText(@, IteratedList(@)[@.next]) EXCEPT
                    !.next = @ + 1,
                    !.pending = @ \ {IteratedList(pushes[t])[pushes[t].next]}]
          ELSE [@ EXCEPT !.state = "done", !.list = NoId, !.next = 1,
                         !.pending = @ \cap RegisteredFor(pushes[t].user_id)]]
    /\ UNCHANGED <<tables, pc, req, pre, active_connections, websockets>>

-----------------------------------------------------------------------------
(* GET /users/applications/{application_id}/track *)

\* The rows of a table that belong to one application, in insertion order
RowsOf(table, application_id) ==
    SelectSeq(table, LAMBDA row : row.application_id = application_id)

\* The handler reads the caller's application, then its history and interviews.
TrackApplicationOf(p, callers) ==
    /\ pc[p] = "idle"
    /\ \E u \in callers, application_id \in ApplicationIds :
        LET r == [op |-> "track", user |-> u, application_id |-> application_id,
                  status |-> Null, status_history |-> <<>>, interviews |-> <<>>,
                  response |-> "pending"]
        IN  IF \/ application_id \notin DOMAIN applications
               \/ applications[application_id].user_id # u
            THEN Finish(p, r, "not_found")
            ELSE Finish(p, [r EXCEPT !.status = applications[application_id].status,
                                     !.status_history = RowsOf(history, application_id),
                                     !.interviews = RowsOf(interviews, application_id)],
                        "ok")
    /\ UNCHANGED <<tables, pre>>

TrackApplication(p) == TrackApplicationOf(p, Applicants)

-----------------------------------------------------------------------------
(* A commit that fails *)

\* Where apply_to_job and change_application_status are about to commit
CommitPoints ==
    {"apply_insert", "apply_history", "apply_notify",
     "status_update", "status_history", "status_notify"}

\* db.commit() raises: the pending write is lost, the handler ends with the
\* error, and what its earlier commits wrote stays in the tables.
CommitFails(p) ==
    /\ pc[p] \in CommitPoints
    /\ Finish(p, req[p], "error")
    /\ UNCHANGED <<tables, pre>>

-----------------------------------------------------------------------------
\* The response has been sent: the worker is free for the next request.
Release(p) ==
    /\ pc[p] = "done"
    /\ pc' = [pc EXCEPT ![p] = "idle"]
    /\ req' = [req EXCEPT ![p] = Idle]
    /\ pre' = [pre EXCEPT ![p] = NoSnapshot]
    /\ UNCHANGED tables
    /\ UNCHANGED live


-----------------------------------------------------------------------------
(* One request at a time, each run to completion: the synchronous            *)
(* request/response handling of a single worker.                             *)

Step(p) ==
    \/ ApplyStart(p) \/ ApplyInsert(p) \/ ApplyHistory(p) \/ ApplyNotify(p)
    \/ ChangeStatusStart(p) \/ ChangeStatusUpdate(p) \/ ChangeStatusHistory(p)
    \/ ChangeStatusNotify(p)
    \/ ScheduleStart(p) \/ ScheduleCommit(p) \/ ScheduleNotify(p)
    \/ ApproveJob(p) \/ ApproveNotify(p) \/ UpdateJob(p)
    \/ Release(p)

Next == Step(1)

Spec == Init /\ [][Next]_vars

-----------------------------------------------------------------------------
(* Apply requests served concurrently: the steps of the workers interleave   *)
(* at the handler's commits.                                                 *)

ApplyStep(p) ==
    \/ ApplyStart(p) \/ ApplyInsert(p) \/ ApplyHistory(p) \/ ApplyNotify(p)
    \/ Release(p)

ApplyConcNext == \E p \in Workers : ApplyStep(p)

ApplyConcSpec == Init /\ [][ApplyConcNext]_vars

-----------------------------------------------------------------------------
(* The notification inbox: job approvals fill it, its owners read it.        *)

InboxStep(p) ==
    \/ ApproveJob(p) \/ ApproveNotify(p)
    \/ MarkAllRead(p) \/ MarkRead(p)
    \/ Release(p)

InboxNext == InboxStep(1)

InboxSpec == Init /\ [][InboxNext]_vars


-----------------------------------------------------------------------------
(* Resume uploads, one at a time.                                            *)

ResumeStep(p) == UploadStart(p) \/ UploadCommit(p) \/ Release(p)

ResumeNext == ResumeStep(1)

ResumeSpec == Init /\ [][ResumeNext]_vars

-----------------------------------------------------------------------------
(* Uploads served concurrently: the coroutines interleave at their await.    *)

UploadConcStep(p) ==
    UploadStartBy(p, Applicants, {".pdf"}) \/ UploadCommit(p) \/ Release(p)

UploadConcNext == \E p \in Workers : UploadConcStep(p)

UploadConcSpec == Init /\ [][UploadConcNext]_vars

-----------------------------------------------------------------------------
(* Applicants upload resumes and apply, naming a resume or none.             *)

\* application_data.resume_id: none, or the id of a row that may exist
AttachedResumes == {NoId, 1, 2}

AttachStep(p) ==
    \/ UploadStartBy(p, Applicants, {".pdf"}) \/ UploadCommit(p)
    \/ ApplyStartWith(p, Applicants, AttachedResumes)
    \/ ApplyInsert(p) \/ ApplyHistory(p) \/ ApplyNotify(p)
    \/ Release(p)

AttachNext == AttachStep(1)

AttachSpec == Init /\ [][AttachNext]_vars

-----------------------------------------------------------------------------
(* Applicants look for jobs while jobs are approved, rejected, activated and *)
(* deactivated and applications are made.                                    *)

BrowseStep(p) ==
    \/ SearchJobs(p) \/ Recommend(p)
    \/ ApplyStart(p) \/ ApplyInsert(p) \/ ApplyHistory(p) \/ ApplyNotify(p)
    \/ ApproveJob(p) \/ ApproveNotify(p) \/ UpdateJob(p)
    \/ Release(p)

BrowseNext == BrowseStep(1)

BrowseSpec == Init /\ [][BrowseNext]_vars

-----------------------------------------------------------------------------
(* Applicant 1 applies and the recruiters review the applications, changing  *)
(* a status again and again and scheduling an interview.                     *)

MaxReviewRows == 3
MaxReviewAlerts == 3

ReviewStep(p) ==
    \/ ApplyStartWith(p, {1}, {NoId})
    \/ ApplyInsert(p) \/ ApplyHistory(p) \/ ApplyNotify(p)
    \/ ChangeStatusRequest(p, {3, 4}, ValidStatuses, {Null}, MaxReviewRows, MaxReviewAlerts)
    \/ ChangeStatusUpdate(p) \/ ChangeStatusHistory(p) \/ ChangeStatusNotify(p)
    \/ ScheduleStart(p) \/ ScheduleCommit(p) \/ ScheduleNotify(p)
    \/ Release(p)

ReviewNext == ReviewStep(1)

ReviewSpec == Init /\ [][ReviewNext]_vars

-----------------------------------------------------------------------------
(* Applicant 1 applies, then status changes of the job's recruiter are       *)
(* served concurrently: their steps interleave at the handler's commits.     *)

RacingStatuses == {"shortlisted", "rejected"}

StatusConcStep(p) ==
    \/ ChangeStatusRequest(p, {3}, RacingStatuses, {Null}, MaxReviewRows, MaxReviewAlerts)
    \/ ChangeStatusUpdate(p) \/ ChangeStatusHistory(p) \/ ChangeStatusNotify(p)
    \/ Release(p)

StatusConcNext ==
    \/ ApplyStartWith(1, {1}, {NoId})
    \/ ApplyInsert(1) \/ ApplyHistory(1) \/ ApplyNotify(1)
    \/ \E p \in Workers : StatusConcStep(p)

StatusConcSpec == Init /\ [][StatusConcNext]_vars

-----------------------------------------------------------------------------
(* get_personalized_recommendations over three posted jobs, called with      *)
(* small limits and with its default, while applicant 1 applies.             *)

RankedSkills == {{}, {"Python"}, {"Python", "SQL"}, {"React"}}

\* A job as create_job stores it and the admin approves it
RankedJob(skills, is_active) ==
    [recruiter_id |-> 1, is_approved |-> TRUE, is_active |-> is_active,
     skills_required |-> skills, description |-> <<>>]

RankInit ==
    /\ jobs \in {<<RankedJob(s1, TRUE), RankedJob(s2, is_active), RankedJob(s3, TRUE)>> :
                    s1 \in RankedSkills, s2 \in RankedSkills, s3 \in RankedSkills,
                    is_active \in BOOLEAN}
    /\ applications = <<>>
    /\ InitOthers

RankLimits == {1, 2, DefaultLimit}

RankStep(p) ==
    \/ RecommendWith(p, RankLimits)
    \/ ApplyStartWith(p, {1}, {NoId})
    \/ ApplyInsert(p) \/ ApplyHistory(p) \/ ApplyNotify(p)
    \/ Release(p)

RankNext == RankStep(1)

RankSpec == RankInit /\ [][RankNext]_vars

-----------------------------------------------------------------------------
(* The pages of one job are opened while jobs are approved, rejected,        *)
(* closed and reopened.                                                      *)

JobPageStep(p) ==
    \/ ResumeMatch(p) \/ SkillGap(p) \/ InterviewPrep(p)
    \/ ApproveJob(p) \/ ApproveNotify(p) \/ UpdateJob(p)
    \/ Release(p)

JobPageNext == JobPageStep(1)

JobPageSpec == Init /\ [][JobPageNext]_vars

-----------------------------------------------------------------------------
(* The life of a job from its creation: recruiters create and update jobs,   *)
(* the admin approves or rejects them, one applicant applies.                *)

\* The requests of the recruiters and of the admin
PostingStep(p) ==
    \/ CreateJob(p) \/ UpdateJobFrom(p, UpdatedBodies)
    \/ ApproveJob(p) \/ ApproveNotify(p)
    \/ Release(p)

\* The requests of the applicant
ApplicantStep(p) ==
    \/ ApplyStartWith(p, {1}, {NoId})
    \/ ApplyInsert(p) \/ ApplyHistory(p) \/ ApplyNotify(p)
    \/ Release(p)

ApprovalNext == PostingStep(1) \/ ApplicantStep(1)

ApprovalInit ==
    /\ jobs = <<>>
    /\ applications = <<>>
    /\ InitOthers

ApprovalSpec == ApprovalInit /\ [][ApprovalNext]_vars

-----------------------------------------------------------------------------
(* POST /auth/register and PUT /admin/users/{user_id}. An account's email is *)
(* its position in the table: a registration names the email of an account   *)
(* that exists or the one email that is not registered yet.                  *)

\* The limit of admin accounts that register tests
MaxAdmins == 5

\* db.query(User).filter(User.role == "admin").count()
admin_count(table) == Cardinality({u \in DOMAIN table : table[u].role = "admin"})

\* The roles a registration may ask for; register accepts user, recruiter and
\* admin, and the last one here is none of them
RegisteredRoles == {"user", "admin", "guest"}

\* The AdminUserUpdate bodies an admin sends: a field that is None is absent
UserUpdates ==
    { [role |-> "user"], [role |-> "admin"], [is_active |-> FALSE],
      [role |-> "admin", is_active |-> FALSE] }

\* Depends(require_role(role)): the caller's account has the role
require_role(caller, role) ==
    /\ caller \in DOMAIN users
    /\ users[caller].role = role

\* User(email, password_hash, role) with the Column default of is_active
UserRow(role) == [role |-> role, is_active |-> TRUE]

\* register up to the commit of the user row; the profiles it commits after
\* are rows of other tables
Register(p) ==
    /\ Enter(p)
    /\ Len(users) < MaxUsers
    /\ \E email \in 1..(Len(users) + 1), role \in RegisteredRoles :
        LET r == [op |-> "register", role |-> role, response |-> "pending"]
        IN  IF email \in DOMAIN users
            THEN Respond(p, r, "bad_request") /\ UNCHANGED users
            ELSE IF role = "admin" /\ admin_count(users) >= MaxAdmins
            THEN Respond(p, r, "bad_request") /\ UNCHANGED users
            ELSE IF role \notin {"user", "recruiter", "admin"}
            THEN Respond(p, r, "bad_request") /\ UNCHANGED users
            ELSE /\ users' = Append(users, UserRow(role))
                 /\ Respond(p, r, "created")
    /\ UNCHANGED <<jobs, applications, history, interviews, notifications, resumes,
                   interview_preps, live>>

\* update_user: is_active and role are assigned when the body gives them
UpdateUser(p) ==
    /\ Enter(p)
    /\ \E caller \in 1..(Len(users) + 1), user_id \in 1..(Len(users) + 1),
          user_update \in UserUpdates :
        LET r == [op |-> "update_user", user_id |-> user_id,
                  role |-> IF "role" \in DOMAIN user_update THEN user_update.role ELSE Null,
                  response |-> "pending"]
        IN  IF ~require_role(caller, "admin")
            THEN Respond(p, r, "forbidden") /\ UNCHANGED users
            ELSE IF user_id \notin DOMAIN users
            THEN Respond(p, r, "not_found") /\ UNCHANGED users
            ELSE /\ users' = [users EXCEPT ![user_id] = setattrs(@, user_update)]
                 /\ Respond(p, r, "ok")
    /\ UNCHANGED <<jobs, applications, history, interviews, notifications, resumes,
                   interview_preps, live>>

AccountsNext == Register(1) \/ UpdateUser(1) \/ Release(1)

\* No account is registered yet
AccountsInit ==
    /\ users = <<>>
    /\ jobs = <<>>
    /\ applications = <<>>
    /\ InitTables

AccountsSpec == AccountsInit /\ [][AccountsNext]_vars

-----------------------------------------------------------------------------
(* The scoring of candidates against one job, whatever skills the recruiter  *)
(* gave it (recruiter_routes.create_job stores the list as it is sent).      *)

\* Skills a recruiter may write, some twice in different case
PostedSkills == {"Python", "SQL", "sql", "React"}
PostedDescriptions == {<<>>, <<"Python", "and", "SQL", "data">>}

PostedJobs ==
    {[recruiter_id |-> 1, is_approved |-> TRUE, is_active |-> TRUE,
      skills_required |-> skills, description |-> description] :
        skills \in SUBSET PostedSkills, description \in PostedDescriptions}

ScoreInit ==
    /\ jobs \in {<<job>> : job \in PostedJobs}
    /\ applications = <<>>
    /\ InitOthers

ScoreNext == ResumeMatch(1) \/ SkillGap(1) \/ Release(1)

ScoreSpec == ScoreInit /\ [][ScoreNext]_vars

-----------------------------------------------------------------------------
(* The connection registry: clients open and close connections.              *)

RegistryStep(w) == WsOpen(w) \/ WsRegister(w) \/ ClientClose(w) \/ WsDisconnect(w)

RegistryNext == \E w \in Sockets : RegistryStep(w)

RegistrySpec == Init /\ [][RegistryNext]_vars

-----------------------------------------------------------------------------
(* The live channel: connections come and go while notifications are created *)
(* and pushed.                                                               *)

PushStep(t) == PushStart(t) \/ PushNext(t)

\* The clients of the live channel that hold a token an account was issued
LiveSockets == 1..MaxLiveSockets

LiveClientStep(w) ==
    \/ WsOpenWith(w, IssuedTokens) \/ WsRegister(w) \/ ClientClose(w) \/ WsDisconnect(w)

LiveNext ==
    \/ \E w \in LiveSockets : LiveClientStep(w)
    \/ NotifyCommit(1) \/ NotifyPush(1) \/ Release(1)
    \/ \E t \in DOMAIN pushes : PushStep(t)

LiveSpec == Init /\ [][LiveNext]_vars

-----------------------------------------------------------------------------
(* One worker applies and changes statuses, any of its commits may fail, and *)
(* a second worker serves the tracking page in between.                      *)

\* The requests made while the tracking page is watched
TrackedApplicants == {1}
TrackedCallers == {3}
TrackedStatuses == {"shortlisted", "rejected"}

WriterStep(p) ==
    \/ ApplyStartWith(p, TrackedApplicants, {NoId})
    \/ ApplyInsert(p) \/ ApplyHistory(p) \/ ApplyNotify(p)
    \/ ChangeStatusStartWith(p, TrackedCallers, TrackedStatuses, {Null})
    \/ ChangeStatusUpdate(p) \/ ChangeStatusHistory(p)
    \/ ChangeStatusNotify(p)
    \/ CommitFails(p)
    \/ Release(p)

ReaderStep(p) == TrackApplicationOf(p, TrackedApplicants) \/ Release(p)

TrackNext == WriterStep(1) \/ ReaderStep(2)

TrackSpec == Init /\ [][TrackNext]_vars

-----------------------------------------------------------------------------
(* Properties. A request's effect is read off where its worker is and off    *)
(* the tables recorded when it started (pre).                                *)

\* Worker p serves a request of handler op
Serving(p, op) == pc[p] # "idle" /\ req[p].op = op

\* Worker p's request of handler op has returned response
Returned(p, op, response) ==
    pc[p] = "done" /\ req[p].op = op /\ req[p].response = response

\* The request of worker p has written none of the workflow's tables
NothingWritten(p) ==
    /\ applications = pre[p].applications
    /\ history = pre[p].history
    /\ notifications = pre[p].notifications
    /\ interviews = pre[p].interviews

\* When p's request started, its user had an application for its job
AppliedBefore(p) ==
    \E a \in DOMAIN pre[p].applications :
        /\ pre[p].applications[a].user_id = req[p].user
        /\ pre[p].applications[a].job_id = req[p].job_id

\* When p's request started, its job existed, approved and active
JobOpenBefore(p) ==
    /\ req[p].job_id \in DOMAIN pre[p].jobs
    /\ pre[p].jobs[req[p].job_id].is_approved
    /\ pre[p].jobs[req[p].job_id].is_active

(* C1, as claimed: for every user u and job j, if u already has an           *)
(* application for j, a further apply(u, j) is rejected with a conflict      *)
(* error and creates no Application row, no StatusHistory row and no         *)
(* notification.                                                             *)
C1_DuplicateApplyConflict ==
    \A p \in Workers :
        (Serving(p, "apply") /\ AppliedBefore(p)) =>
            /\ Returned(p, "apply", "already_applied")
            /\ NothingWritten(p)

(* C1, amended: if u already has an application for j, a further apply(u, j) *)
(* is rejected and creates no Application row, no StatusHistory row and no   *)
(* notification; the error is the conflict error while j is still approved   *)
(* and active, and not-found once j is unapproved or inactive.               *)
C1_DuplicateApplyRejected ==
    \A p \in Workers :
        (Serving(p, "apply") /\ AppliedBefore(p)) =>
            /\ Returned(p, "apply",
                        IF JobOpenBefore(p) THEN "already_applied" ELSE "not_found")
            /\ NothingWritten(p)

\* C1's case: a second apply for the same open job has been rejected as a duplicate
C1_Witness ==
    \E p \in Workers :
        /\ Returned(p, "apply", "already_applied")
        /\ AppliedBefore(p)
        /\ JobOpenBefore(p)

(* C2: in every interleaving of apply requests by the same user for the same *)
(* approved and active job, at most one Application row for that (user, job) *)
(* pair exists in every reachable state.                                     *)
C2_OneApplicationPerPair ==
    \A a, b \in DOMAIN applications :
        (/\ applications[a].user_id = applications[b].user_id
         /\ applications[a].job_id = applications[b].job_id) => a = b

\* The five values of the status enum, as the specification lists them
StatusEnum == {"applied", "shortlisted", "rejected", "interview_scheduled", "selected"}

(* C3: every successful recruiter status change on an application appends    *)
(* exactly one StatusHistory row for that application, whose old_status is   *)
(* the application's status immediately before the call, whose new_status is *)
(* the requested status and whose changed_by is the acting recruiter;        *)
(* afterwards the application's status equals the requested status.          *)
C3_StatusChangeRecorded ==
    \A p \in Workers :
        Returned(p, "change_status", "ok") =>
            /\ Len(history) = Len(pre[p].history) + 1
            /\ SubSeq(history, 1, Len(pre[p].history)) = pre[p].history
            /\ LET row == history[Len(history)]
               IN  /\ row.application_id = req[p].application_id
                   /\ row.old_status = pre[p].applications[req[p].application_id].status
                   /\ row.new_status = req[p].status
                   /\ row.changed_by = req[p].user
            /\ applications[req[p].application_id].status = req[p].status

\* C3's case: a status change that moved the application to another status has returned
C3_Witness ==
    \E p \in Workers :
        /\ Returned(p, "change_status", "ok")
        /\ pre[p].applications[req[p].application_id].status # req[p].status
        /\ Len(history) = 2

(* C4: a status change whose requested status is not one of applied,         *)
(* shortlisted, rejected, interview_scheduled, selected is rejected with a   *)
(* validation error and leaves the application's status, its StatusHistory   *)
(* log and the notifications unchanged, whether or not the application       *)
(* exists or is owned by the caller.                                         *)
C4_InvalidStatusRejected ==
    \A p \in Workers :
        (Serving(p, "change_status") /\ req[p].status \notin StatusEnum) =>
            /\ Returned(p, "change_status", "invalid_status")
            /\ NothingWritten(p)

\* C4's case: an invalid status for an application of the caller's own job was rejected
C4_Witness ==
    \E p \in Workers :
        /\ Returned(p, "change_status", "invalid_status")
        /\ req[p].application_id \in DOMAIN applications
        /\ RecruiterProfiles[jobs[applications[req[p].application_id].job_id].recruiter_id].user_id
               = req[p].user

(* C5: in every state reachable by any sequence of apply, status-change and  *)
(* interview-scheduling operations, every application's status is one of     *)
(* applied, shortlisted, rejected, interview_scheduled, selected, and a      *)
(* newly created application has status applied.                             *)
C5_StatusInEnum ==
    /\ \A a \in DOMAIN applications : applications[a].status \in StatusEnum
    /\ \A p \in Workers :
          (Serving(p, "apply") /\ Len(applications) > Len(pre[p].applications)) =>
              applications[Len(applications)].status = "applied"

\* C5's case: an application created by an apply was moved on by an interview
\* scheduling, the write that no status validation guards
C5_Witness ==
    \E a \in DOMAIN applications :
        /\ applications[a].status = "interview_scheduled"
        /\ \E h \in DOMAIN history :
              history[h].application_id = a /\ history[h].new_status = "applied"
        /\ \E i \in DOMAIN interviews : interviews[i].application_id = a
        /\ \A p \in Workers : pc[p] = "idle"

\* The resumes of user u in table rs
ResumesOf(rs, u) == {r \in DOMAIN rs : rs[r].user_id = u}

Max(S) == CHOOSE x \in S : \A y \in S : y <= x

(* C6: after any sequence of sequential resume uploads, every user with at   *)
(* least one resume has exactly one resume flagged primary, and it is the    *)
(* most recently uploaded one; an upload by one user never changes the       *)
(* primary flag of another user's resumes.                                   *)
C6_OnePrimaryResume ==
    /\ \A u \in AllUsers :
          ResumesOf(resumes, u) # {} =>
              {r \in ResumesOf(resumes, u) : resumes[r].is_primary}
                  = {Max(ResumesOf(resumes, u))}
    /\ \A p \in Workers :
          Serving(p, "upload") =>
              \A r \in DOMAIN pre[p].resumes :
                  pre[p].resumes[r].user_id # req[p].user => resumes[r] = pre[p].resumes[r]

\* C6's case: a user's second upload has returned while another user holds a resume
C6_Witness ==
    \E p \in Workers :
        /\ Returned(p, "upload", "ok")
        /\ Cardinality(ResumesOf(resumes, req[p].user)) = 2
        /\ \E r \in DOMAIN pre[p].resumes : pre[p].resumes[r].user_id # req[p].user

(* C7: a successful interview scheduling by the recruiter who owns the job   *)
(* sets the application's status to interview_scheduled, creates exactly one *)
(* Interview row for that application with a non-empty room reference and a  *)
(* non-empty access token and status scheduled, and creates exactly one      *)
(* notification addressed to the applicant.                                  *)
C7_InterviewScheduled ==
    \A p \in Workers :
        Returned(p, "schedule", "ok") =>
            /\ applications[req[p].application_id].status = "interview_scheduled"
            /\ Len(interviews) = Len(pre[p].interviews) + 1
            /\ SubSeq(interviews, 1, Len(pre[p].interviews)) = pre[p].interviews
            /\ LET row == interviews[Len(interviews)]
               IN  /\ row.application_id = req[p].application_id
                   /\ row.meeting_url \notin {"", Null}
                   /\ row.meeting_token \notin {"", Null}
                   /\ row.status = "scheduled"
            /\ Len(notifications) = Len(pre[p].notifications) + 1
            /\ SubSeq(notifications, 1, Len(pre[p].notifications)) = pre[p].notifications
            /\ notifications[Len(notifications)].user_id
                   = pre[p].applications[req[p].application_id].user_id

\* C7's case: the owning recruiter has scheduled an interview for an application
C7_Witness ==
    \E p \in Workers :
        /\ Returned(p, "schedule", "ok")
        /\ pre[p].applications[req[p].application_id].status = "applied"
        /\ Len(interviews) = 1

(* C8: apply(u, j) succeeds only if job j exists and is both approved and    *)
(* active at the time of the call; if j is missing, unapproved or inactive   *)
(* the call fails with not-found and creates no Application, StatusHistory   *)
(* or Notification row.                                                      *)
C8_ApplyNeedsOpenJob ==
    \A p \in Workers :
        Serving(p, "apply") =>
            /\ req[p].response = "ok" => JobOpenBefore(p)
            /\ ~JobOpenBefore(p) =>
                  Returned(p, "apply", "not_found") /\ NothingWritten(p)
            /\ Len(applications) > Len(pre[p].applications) => JobOpenBefore(p)

\* C8's case: an apply to an existing job that is approved but inactive was refused
C8_Witness ==
    \E p \in Workers :
        /\ Returned(p, "apply", "not_found")
        /\ req[p].job_id \in DOMAIN jobs
        /\ jobs[req[p].job_id].is_approved
        /\ ~jobs[req[p].job_id].is_active

(* C9: a successful apply creates one Application with status applied,       *)
(* exactly one StatusHistory row for it with new_status applied, no          *)
(* old_status and changed_by equal to the applicant, and exactly one         *)
(* notification addressed to the user account of the job's recruiter.        *)
C9_ApplyCreates ==
    \A p \in Workers :
        Returned(p, "apply", "ok") =>
            LET id == Len(pre[p].applications) + 1
            IN  /\ Len(applications) = id
                /\ SubSeq(applications, 1, id - 1) = pre[p].applications
                /\ applications[id].user_id = req[p].user
                /\ applications[id].job_id = req[p].job_id
                /\ applications[id].status = "applied"
                /\ Len(history) = Len(pre[p].history) + 1
                /\ SubSeq(history, 1, Len(pre[p].history)) = pre[p].history
                /\ history[Len(history)].application_id = id
                /\ history[Len(history)].new_status = "applied"
                /\ history[Len(history)].old_status = Null
                /\ history[Len(history)].changed_by = req[p].user
                /\ Len(notifications) = Len(pre[p].notifications) + 1
                /\ SubSeq(notifications, 1, Len(pre[p].notifications)) = pre[p].notifications
                /\ notifications[Len(notifications)].user_id
                       = RecruiterProfiles[jobs[req[p].job_id].recruiter_id].user_id

\* C9's case: an apply has succeeded on a job whose recruiter profile id is not
\* the recruiter's user id
C9_Witness ==
    \E p \in Workers :
        /\ Returned(p, "apply", "ok")
        /\ notifications[Len(notifications)].user_id \in RecruiterUsers
        /\ notifications[Len(notifications)].user_id # jobs[req[p].job_id].recruiter_id

(* C10: marking all notifications read for user u who has N unread           *)
(* notifications returns N, leaves u with 0 unread notifications, and leaves *)
(* the read flag of every other user's notifications unchanged.              *)
C10_MarkAllRead ==
    \A p \in Workers :
        Returned(p, "read_all", "ok") =>
            /\ req[p].count =
                  Cardinality({n \in DOMAIN pre[p].notifications :
                                  /\ pre[p].notifications[n].user_id = req[p].user
                                  /\ ~pre[p].notifications[n].is_read})
            /\ \A n \in DOMAIN notifications :
                  notifications[n].user_id = req[p].user => notifications[n].is_read
            /\ DOMAIN notifications = DOMAIN pre[p].notifications
            /\ \A n \in DOMAIN notifications :
                  notifications[n].user_id # req[p].user =>
                      notifications[n] = pre[p].notifications[n]

\* C10's case: a user with an unread notification marked all read while another
\* user's notification stays unread
C10_Witness ==
    \E p \in Workers :
        /\ Returned(p, "read_all", "ok")
        /\ req[p].count >= 1
        /\ \E n \in DOMAIN notifications :
              notifications[n].user_id # req[p].user /\ ~notifications[n].is_read


\* The row create_notification stores for the caller of the live-channel model
NotifiedRow(user_id) ==
    [user_id |-> user_id, type |-> "application_update", is_read |-> FALSE,
     reference_id |-> 1, reference_type |-> "application"]

(* C11: notify persists the Notification row before any push is attempted,   *)
(* and the persisted row and the value returned to the caller are the same   *)
(* whether the user has no live connection, has connections that all accept  *)
(* the push, or has connections whose send fails: a push failure never       *)
(* removes the row, never changes it and never makes the triggering          *)
(* operation fail.                                                           *)
C11_PersistedWhateverThePush ==
    /\ \A t \in DOMAIN pushes :
          /\ pushes[t].notification_id \in DOMAIN notifications
          /\ notifications[pushes[t].notification_id] = NotifiedRow(pushes[t].user_id)
    /\ \A p \in Workers :
          Serving(p, "notify") =>
              /\ req[p].notification_id = Len(pre[p].notifications) + 1
              /\ req[p].notification_id \in DOMAIN notifications
              /\ notifications[req[p].notification_id] = NotifiedRow(req[p].user)
              /\ SubSeq(notifications, 1, Len(pre[p].notifications)) = pre[p].notifications
              /\ pc[p] = "done" =>
                    /\ req[p].response = "ok"
                    /\ req[p].returned = NotifiedRow(req[p].user)

\* C11's case: a push has ended after one connection of the user took the
\* message and the send to another failed
C11_Witness ==
    \E t \in DOMAIN pushes :
        /\ pushes[t].state = "done"
        /\ pushes[t].sent # {}
        /\ pushes[t].failed # {}
        /\ notifications[pushes[t].notification_id] = NotifiedRow(pushes[t].user_id)


\* Connection w is in the list of some user of the registry
Registered(w) ==
    \E u \in DOMAIN active_connections :
        \E i \in DOMAIN active_connections[u].items : active_connections[u].items[i] = w

(* C12, as claimed: a live-channel connection whose token is missing,        *)
(* malformed, invalid or carries no user id is closed with close code 4001   *)
(* without being accepted and is never added to the connection registry.     *)
C12_BadTokenClosed4001 ==
    \A w \in DOMAIN websockets :
        websockets[w].token \in {"no token", "not-a-jwt", "expired", "no user_id"} =>
            /\ websockets[w].state = "closed"
            /\ websockets[w].code = 4001
            /\ ~Registered(w)

(* C12, amended: a live-channel connection whose token is malformed, invalid *)
(* or carries no user id is closed with close code 4001 without being        *)
(* accepted and is never added to the connection registry; a connection      *)
(* that sends no token at all never reaches the endpoint: the validation of  *)
(* the required parameter refuses it with close code 1008, and it too is     *)
(* neither accepted nor added to the registry.                               *)
C12_BadTokenNeverRegistered ==
    \A w \in DOMAIN websockets :
        /\ websockets[w].token \in {"not-a-jwt", "expired", "no user_id"} =>
              /\ websockets[w].state = "closed"
              /\ websockets[w].code = 4001
              /\ ~Registered(w)
        /\ websockets[w].token = "no token" =>
              /\ websockets[w].state = "refused"
              /\ websockets[w].code = 1008
              /\ ~Registered(w)

\* C12's case: a connection whose token carries no user id was closed while
\* another connection is registered, and a third came without a token
C12_Witness ==
    \E w, v, x \in DOMAIN websockets :
        /\ websockets[w].token = "no user_id" /\ websockets[w].state = "closed"
        /\ websockets[v].state = "open" /\ Registered(v)
        /\ websockets[x].token = "no token" /\ websockets[x].state = "refused"


\* The jobs the response to p's request shows
ShownJobs(p) ==
    CASE req[p].op = "search" -> {req[p].result[i] : i \in DOMAIN req[p].result}
      [] req[p].op = "recommend" -> {req[p].result[i].job_id : i \in DOMAIN req[p].result}
      [] req[p].op \in {"resume_match", "skill_gap", "interview_prep"} -> {req[p].job_id}
      [] OTHER -> {}

(* C13: a job is returned by job search, returned by recommendations, or     *)
(* exposed through the applicant-facing resume-match, skill-gap and          *)
(* interview-prep endpoints only while it is both approved and active; no    *)
(* applicant-facing operation reveals a job that is unapproved or inactive.  *)
C13_OnlyOpenJobsShown ==
    \A p \in Workers :
        (pc[p] = "done" /\ req[p].response = "ok") =>
            \A j \in ShownJobs(p) :
                /\ j \in DOMAIN jobs
                /\ jobs[j].is_approved
                /\ jobs[j].is_active


\* The account that owns the job of application a, as the tables stood when
\* p's request started
JobOwnerBefore(p, a) ==
    RecruiterProfiles[pre[p].jobs[pre[p].applications[a].job_id].recruiter_id].user_id

(* C14: a status change or an interview scheduling requested by a recruiter  *)
(* who does not own the application's job fails with forbidden, and one that *)
(* names a non-existent application fails with not-found; in both cases the  *)
(* application's status, its StatusHistory, the Interview rows and the       *)
(* notifications are unchanged.                                              *)
C14_StrangerForbidden ==
    \A p \in Workers :
        (Serving(p, "change_status") \/ Serving(p, "schedule")) =>
            LET a == req[p].application_id
            IN  /\ a \notin DOMAIN pre[p].applications =>
                      /\ Returned(p, req[p].op, "not_found")
                      /\ NothingWritten(p)
                /\ (a \in DOMAIN pre[p].applications /\ JobOwnerBefore(p, a) # req[p].user) =>
                      /\ Returned(p, req[p].op, "forbidden")
                      /\ NothingWritten(p)


(* C15: for all candidate and job skill sets compared case-insensitively,    *)
(* skillScore lies in [0,100], is 0 when the job has no required skills, and *)
(* when the job's required-skill set is non-empty equals 100 if and only if  *)
(* every required skill is in the candidate's set; matched is the            *)
(* intersection and missing is the job's skills absent from the candidate's  *)
(* set (e.g. job {Python, SQL} and candidate {python, react} give matched    *)
(* {python}, missing {sql}, skillScore 50).                                  *)
C15_SkillScore ==
    \A p \in Workers :
        Returned(p, "resume_match", "ok") =>
            LET required == {Lower(s) : s \in jobs[req[p].job_id].skills_required}
                held == {Lower(s) : s \in req[p].skills}
                matched == {Lower(s) : s \in req[p].result.matched_skills}
                missing == {Lower(s) : s \in req[p].result.missing_skills}
                skillScore == req[p].result.skill_match_score
            IN  /\ skillScore \in 0..1000
                /\ required = {} => skillScore = 0
                /\ required # {} => (skillScore = 1000 <=> required \subseteq held)
                /\ matched = required \cap held
                /\ missing = required \ held
                /\ (/\ jobs[req[p].job_id].skills_required = {"Python", "SQL"}
                    /\ req[p].skills = {"python", "react"}) =>
                       /\ matched = {"python"}
                       /\ missing = {"sql"}
                       /\ skillScore = 500

\* C15's case: the job {Python, SQL} was scored for the candidate {python, react}
C15_Witness ==
    \E p \in Workers :
        /\ Returned(p, "resume_match", "ok")
        /\ jobs[req[p].job_id].skills_required = {"Python", "SQL"}
        /\ req[p].skills = {"python", "react"}
        /\ req[p].result.skill_match_score = 500



-----------------------------------------------------------------------------
\* The history rows record the status: the first row is the initial applied
\* row and the last row leads to the status.
Recorded(status, rows) ==
    /\ Len(rows) > 0
    /\ rows[1].old_status = Null
    /\ rows[1].new_status = DefaultStatus
    /\ rows[Len(rows)].new_status = status

\* No apply and no status change is between two of its commits
NoWriteInProgress == \A p \in Workers : pc[p] \in {"idle", "done"}

\* C16: no partial result of an apply or of a status change is observable.
\* Whenever no write request is in progress, also after one has failed, every
\* application has its initial applied history row and its status is the one
\* its last history row records; and every tracking page that was served,
\* also while a write request was in progress, shows an application that way.
C16_NoPartialResultObservable ==
    /\ NoWriteInProgress =>
            \A a \in DOMAIN applications :
                Recorded(applications[a].status, RowsOf(history, a))
    /\ \A p \in Workers :
            Returned(p, "track", "ok") =>
                Recorded(req[p].status, req[p].status_history)

-----------------------------------------------------------------------------
\* The notifications that tell an applicant of a status change of application a
StatusNotifications(ns, a) ==
    SelectSeq(ns, LAMBDA n : n.type = "application_update" /\ n.reference_id = a)

\* The history rows of the status changes of application a
StatusChangeRows(rows, a) ==
    SelectSeq(rows, LAMBDA h : h.application_id = a /\ h.old_status # Null)

\* C17: within one status-change request the applicant's notification is
\* created only after the status update and the history append are committed:
\* once the request has added its notification, the application has the new
\* status and the history has the request's row (old status, new status); and
\* in every state, also after a failed commit, an application has no more
\* status-change notifications than status-change history rows.
C17_NotifiedAfterBothCommits ==
    /\ \A p \in Workers :
            (/\ Serving(p, "change_status")
             /\ Len(notifications) > Len(pre[p].notifications)) =>
                LET a == req[p].application_id
                IN  /\ applications[a].status = req[p].status
                    /\ Len(history) = Len(pre[p].history) + 1
                    /\ history[Len(history)].application_id = a
                    /\ history[Len(history)].old_status = pre[p].applications[a].status
                    /\ history[Len(history)].new_status = req[p].status
                    /\ notifications[Len(notifications)].type = "application_update"
                    /\ notifications[Len(notifications)].reference_id = a
                    /\ notifications[Len(notifications)].user_id = applications[a].user_id
    /\ \A a \in DOMAIN applications :
            Len(StatusNotifications(notifications, a)) <= Len(StatusChangeRows(history, a))

\* A status change has returned after notifying the applicant
C17_Witness ==
    \E p \in Workers :
        /\ Returned(p, "change_status", "ok")
        /\ Len(StatusNotifications(notifications, req[p].application_id)) = 1
        /\ Len(StatusChangeRows(history, req[p].application_id)) = 1

-----------------------------------------------------------------------------
\* The jobs the user of p's request had applied to when the request started
AppliedBeforeBy(p) ==
    {pre[p].applications[a].job_id :
        a \in {b \in DOMAIN pre[p].applications :
                    pre[p].applications[b].user_id = req[p].user}}

\* The jobs of the list p's recommend request returned
RecommendedJobs(p) == {req[p].result[i].job_id : i \in DOMAIN req[p].result}

\* C18 as claimed: for every user and every candidate skill set, the empty
\* one included, the list returned by recommend contains no job the user has
\* an application for.
C18_NoAppliedJobRecommended ==
    \A p \in Workers :
        Returned(p, "recommend", "ok") => RecommendedJobs(p) \cap AppliedBeforeBy(p) = {}

\* C18 amended: for every user with at least one skill, the list returned by
\* recommend contains no job the user has an application for; a user without
\* skills is returned the latest open jobs with score 0, applied to or not.
C18_NoAppliedJobRanked ==
    \A p \in Workers :
        Returned(p, "recommend", "ok") =>
            IF req[p].skills # {}
            THEN RecommendedJobs(p) \cap AppliedBeforeBy(p) = {}
            ELSE LET open == {j \in DOMAIN pre[p].jobs :
                                pre[p].jobs[j].is_approved /\ pre[p].jobs[j].is_active}
                 IN  /\ RecommendedJobs(p) \subseteq open
                     /\ Cardinality(RecommendedJobs(p)) = Len(req[p].result)
                     /\ Len(req[p].result) =
                            IF Cardinality(open) < req[p].limit
                            THEN Cardinality(open) ELSE req[p].limit
                     /\ \A i \in DOMAIN req[p].result : req[p].result[i].match_score = 0

\* A user whose skills match both open jobs has applied to job 1 and is
\* recommended job 2 only
C18_Witness ==
    \E p \in Workers :
        /\ Returned(p, "recommend", "ok")
        /\ req[p].skills = {"python", "react"}
        /\ AppliedBeforeBy(p) = {1}
        /\ jobs[1].is_approved /\ jobs[1].is_active
        /\ RecommendedJobs(p) = {2}

-----------------------------------------------------------------------------
\* The skills job j requires that the user of p's request has, compared
\* without regard to case
SharedSkills(p, j) ==
    {s \in jobs[j].skills_required : \E t \in req[p].skills : Lower(s) = Lower(t)}

\* The score of job j for p's request in tenths of a percent, rounded
ExpectedScore(p, j) ==
    LET m == Cardinality(SharedSkills(p, j))
        n == Cardinality(jobs[j].skills_required)
    IN  (2000 * m + n) \div (2 * n)

\* The jobs that qualify for p's request: fetched (approved, active and not
\* applied to by the user), with a required skill and a score above 0
Qualifying(p) ==
    {j \in DOMAIN jobs :
        /\ jobs[j].is_approved /\ jobs[j].is_active
        /\ j \notin AppliedBeforeBy(p)
        /\ jobs[j].skills_required # {}
        /\ SharedSkills(p, j) # {}}

\* Where job j comes in the order in which the query returned the jobs
Encounter(p, j) == CHOOSE i \in DOMAIN req[p].met : req[p].met[i] = j

\* C19: when the candidate has at least one skill, recommend (with a limit
\* of 1 or more) returns at most limit entries; every entry is an approved
\* and active job with at least one required skill and a score above 0;
\* the entries are in non-increasing score order and jobs of equal score
\* keep the order in which they were met; no qualifying job with a higher
\* score than a returned one is omitted, and none is omitted while the list
\* is shorter than limit; the call changes no stored state.
C19_RankedRecommendations ==
    \A p \in Workers :
        (Returned(p, "recommend", "ok") /\ req[p].skills # {}) =>
            LET result == req[p].result
                returned == {result[i].job_id : i \in DOMAIN result}
            IN  /\ Len(result) <= req[p].limit
                /\ \A i \in DOMAIN result :
                        LET j == result[i].job_id
                        IN  /\ j \in DOMAIN jobs
                            /\ jobs[j].is_approved /\ jobs[j].is_active
                            /\ jobs[j].skills_required # {}
                            /\ result[i].match_score > 0
                            /\ result[i].match_score = ExpectedScore(p, j)
                /\ \A i, k \in DOMAIN result :
                        i < k =>
                            /\ result[i].job_id # result[k].job_id
                            /\ result[i].match_score >= result[k].match_score
                            /\ result[i].match_score = result[k].match_score =>
                                    Encounter(p, result[i].job_id)
                                        < Encounter(p, result[k].job_id)
                /\ returned \subseteq Qualifying(p)
                /\ \A q \in Qualifying(p) \ returned :
                        /\ Len(result) = req[p].limit
                        /\ \A i \in DOMAIN result :
                                ExpectedScore(p, q) <= result[i].match_score
                /\ jobs = pre[p].jobs
                /\ resumes = pre[p].resumes
                /\ NothingWritten(p)
                /\ interview_preps = <<>>

\* Limit 2 and three qualifying jobs: the two of equal, higher score are
\* returned in the order met, the later posted one first, and the third job
\* is left out
C19_Witness ==
    \E p \in Workers :
        /\ Returned(p, "recommend", "ok")
        /\ req[p].skills # {}
        /\ req[p].limit = 2
        /\ Cardinality(Qualifying(p)) = 3
        /\ Len(req[p].result) = 2
        /\ req[p].result[1].match_score = req[p].result[2].match_score
        /\ req[p].result[1].job_id > req[p].result[2].job_id
        /\ \E q \in Qualifying(p) : ExpectedScore(p, q) < req[p].result[2].match_score

-----------------------------------------------------------------------------
\* The users a connection can belong to
ConnectedUsers == {decode_access_token(token).user_id : token \in IssuedTokens}

\* The connections registered for user u, in the list's order
EntryIn(registry, u) == IF u \in DOMAIN registry THEN registry[u].items ELSE <<>>

Entry(u) == EntryIn(active_connections, u)

\* The connections that have connected for user u and have not disconnected
ConnectedFor(u) ==
    {w \in Sockets : websockets[w].state = "open" /\ websockets[w].user_id = u}

\* Every user's entry holds exactly the user's connected connections, each
\* once, and a user without connections has no entry
ExactlyTheConnected ==
    /\ DOMAIN active_connections \subseteq ConnectedUsers
    /\ \A u \in ConnectedUsers :
            /\ {Entry(u)[i] : i \in DOMAIN Entry(u)} = ConnectedFor(u)
            /\ Len(Entry(u)) = Cardinality(ConnectedFor(u))
            /\ u \in DOMAIN active_connections <=> ConnectedFor(u) # {}

\* A step of connection w: connect appends w to its user's entry, a
\* disconnect takes exactly w out of it, and the entry of every other user,
\* list and contents, stays as it is
OnlyOwnEntryChanged ==
    \A w \in Sockets :
        websockets'[w] # websockets[w] =>
            LET u == websockets'[w].user_id
            IN  /\ \A v \in ConnectedUsers \ {u} :
                        /\ EntryIn(active_connections', v) = Entry(v)
                        /\ v \in DOMAIN active_connections =>
                                /\ v \in DOMAIN active_connections'
                                /\ active_connections'[v] = active_connections[v]
                /\ (websockets[w].state = "accepted" /\ websockets'[w].state = "open") =>
                        EntryIn(active_connections', u) = Append(Entry(u), w)
                /\ websockets'[w].state = "disconnected" =>
                        /\ Len(EntryIn(active_connections', u)) = Len(Entry(u)) - 1
                        /\ \A x \in Sockets \ {w} :
                                \A i, k \in DOMAIN Entry(u) :
                                    (Entry(u)[i] = x /\ i < k /\ Entry(u)[k] # w) =>
                                        \E m, n \in DOMAIN EntryIn(active_connections', u) :
                                            /\ m < n
                                            /\ EntryIn(active_connections', u)[m] = x
                                            /\ EntryIn(active_connections', u)[n] = Entry(u)[k]
                /\ (websockets'[w].state \notin {"open", "disconnected"}) =>
                        active_connections' = active_connections

-----------------------------------------------------------------------------
\* p's apply request names a resume that did not exist, or was another
\* user's, when the request started
NamedResumeNotOwn(p) ==
    /\ req[p].named_resume_id # NoId
    /\ \/ req[p].named_resume_id \notin DOMAIN pre[p].resumes
       \/ pre[p].resumes[req[p].named_resume_id].user_id # req[p].user

\* C21: an apply that names a resume_id that does not exist or belongs to
\* another user fails with a not-found or forbidden error and creates no
\* Application row.
C21_ForeignResumeRejected ==
    \A p \in Workers :
        (Serving(p, "apply") /\ NamedResumeNotOwn(p)) =>
            /\ applications = pre[p].applications
            /\ pc[p] = "done" => req[p].response \in {"not_found", "forbidden"}

-----------------------------------------------------------------------------
\* C22: interview scheduling changes the application's status to
\* interview_scheduled without appending a StatusHistory row: at every point
\* of a scheduling request the history table is the one the request found,
\* and after a successful scheduling the application has the new status and
\* as many history rows as before.
C22_SchedulingLogsNoHistory ==
    \A p \in Workers :
        Serving(p, "schedule") =>
            /\ history = pre[p].history
            /\ Returned(p, "schedule", "ok") =>
                    /\ applications[req[p].application_id].status = "interview_scheduled"
                    /\ Len(RowsOf(history, req[p].application_id))
                            = Len(RowsOf(pre[p].history, req[p].application_id))

\* An application in status applied, with its one history row, has been
\* scheduled for an interview
C22_Witness ==
    \E p \in Workers :
        /\ Returned(p, "schedule", "ok")
        /\ pre[p].applications[req[p].application_id].status = "applied"
        /\ applications[req[p].application_id].status = "interview_scheduled"
        /\ Len(RowsOf(history, req[p].application_id)) = 1
        /\ history[1].new_status = "applied"

-----------------------------------------------------------------------------
\* p's status change is asked by the recruiter who owns the job of an
\* application that existed when the request started, for one of the five
\* statuses
OwnerAsksValidStatus(p) ==
    /\ Serving(p, "change_status")
    /\ req[p].status \in StatusEnum
    /\ req[p].application_id \in DOMAIN pre[p].applications
    /\ JobOwnerBefore(p, req[p].application_id) = req[p].user

\* C23: the status workflow has no terminal state: from every current
\* status, selected and rejected included, a status change by the owning
\* recruiter to any of the five enum values, the current one and applied
\* included, succeeds and is recorded: the request is not refused, and once
\* it has returned the application has the requested status and the last
\* history row leads from the status found to the requested one.
C23_NoTerminalStatus ==
    \A p \in Workers :
        OwnerAsksValidStatus(p) =>
            /\ pc[p] = "done" => req[p].response = "ok"
            /\ pc[p] = "done" =>
                    LET a == req[p].application_id
                    IN  /\ applications[a].status = req[p].status
                        /\ Len(history) = Len(pre[p].history) + 1
                        /\ history[Len(history)].application_id = a
                        /\ history[Len(history)].old_status = pre[p].applications[a].status
                        /\ history[Len(history)].new_status = req[p].status

\* A selected application has been moved back to applied
C23_Witness ==
    \E p \in Workers :
        /\ OwnerAsksValidStatus(p)
        /\ Returned(p, "change_status", "ok")
        /\ pre[p].applications[req[p].application_id].status = "selected"
        /\ applications[req[p].application_id].status = "applied"

-----------------------------------------------------------------------------
\* Every history row of this state is, with the same fields and at the same
\* place, a row of the next state: rows are only added, at the end
HistoryOnlyGrows ==
    /\ Len(history') >= Len(history)
    /\ SubSeq(history', 1, Len(history)) = history

\* C24: the StatusHistory log is append-only: across apply, status-change,
\* interview-scheduling, admin and notification operations every step keeps
\* every existing history row with identical fields and adds rows only at
\* the end, so a row that exists in one state exists unchanged in every
\* later state.
C24_HistoryAppendOnly == [][HistoryOnlyGrows]_vars

\* The log holds an applied row and a status-change row, and a later
\* operation, here the recruiter's update of the job, has run on top of them
C24_Witness ==
    \E p \in Workers :
        /\ Returned(p, "update_job", "ok")
        /\ Len(history) = 2
        /\ pre[p].history = history
        /\ history[1].old_status = Null
        /\ history[2].old_status = "applied"

-----------------------------------------------------------------------------
\* The rows lead from one status to the next: each row's old_status is the
\* new_status of the row before it
Chained(rows) ==
    \A i \in 2..Len(rows) : rows[i].old_status = rows[i - 1].new_status

\* As Chained, but a row may also start from interview_scheduled, the status
\* that scheduling sets without a row
ChainedButForScheduling(rows) ==
    \A i \in 2..Len(rows) :
        rows[i].old_status \in {rows[i - 1].new_status, "interview_scheduled"}

\* C25 as claimed: after any sequential series of apply, status-change and
\* interview-scheduling operations, the new_status of the most recent history
\* row of every application equals the application's current status, and
\* each history row's old_status equals the new_status of the row before it.
C25_HistoryTracksStatus ==
    NoWriteInProgress =>
        \A a \in DOMAIN applications :
            LET rows == RowsOf(history, a)
            IN  /\ Len(rows) > 0
                /\ rows[Len(rows)].new_status = applications[a].status
                /\ Chained(rows)

\* C25 amended: after any sequential series of apply, status-change and
\* interview-scheduling operations, an application for which no interview
\* was scheduled has the new_status of its most recent history row as its
\* status and its rows chained; an application with an interview has that
\* status or interview_scheduled, and each of its rows starts from the
\* new_status of the row before it or from interview_scheduled.
C25_HistoryTracksStatusButForScheduling ==
    NoWriteInProgress =>
        \A a \in DOMAIN applications :
            LET rows == RowsOf(history, a)
            IN  /\ Len(rows) > 0
                /\ rows[1].old_status = Null
                /\ rows[1].new_status = "applied"
                /\ IF RowsOf(interviews, a) = <<>>
                   THEN /\ rows[Len(rows)].new_status = applications[a].status
                        /\ Chained(rows)
                   ELSE /\ applications[a].status
                                \in {rows[Len(rows)].new_status, "interview_scheduled"}
                        /\ ChainedButForScheduling(rows)

\* An interview was scheduled for an applied application and its status was
\* changed afterwards: the new row starts from interview_scheduled, which no
\* row led to
C25_Witness ==
    /\ NoWriteInProgress
    /\ \E a \in DOMAIN applications :
            LET rows == RowsOf(history, a)
            IN  /\ RowsOf(interviews, a) # <<>>
                /\ Len(rows) = 2
                /\ rows[1].new_status = "applied"
                /\ rows[2].old_status = "interview_scheduled"
                /\ applications[a].status = rows[2].new_status
                /\ applications[a].status = "selected"

-----------------------------------------------------------------------------
\* Both workers have served a successful status change of the same
\* application, neither having started after the other had returned
BothChangedStatus ==
    /\ \A p \in Workers : Returned(p, "change_status", "ok")
    /\ req[1].application_id = req[2].application_id

\* C26: in every interleaving of two concurrent status-change requests on
\* the same application, the two history rows they append form a chain in
\* commit order, the later row's old_status being the earlier row's
\* new_status, and the application's final status is the new_status of the
\* later row.
C26_ConcurrentChangesChain ==
    BothChangedStatus =>
        LET n == Len(history)
        IN  /\ history[n].application_id = req[1].application_id
            /\ history[n - 1].application_id = req[1].application_id
            /\ history[n].old_status = history[n - 1].new_status
            /\ applications[req[1].application_id].status = history[n].new_status

-----------------------------------------------------------------------------
\* Both workers have served an upload of the same user
BothUploaded ==
    /\ \A p \in Workers : Returned(p, "upload", "ok")
    /\ req[1].user = req[2].user

\* The resumes of user u that are flagged primary
PrimaryOf(u) == {r \in DOMAIN resumes : resumes[r].user_id = u /\ resumes[r].is_primary}

\* C27: in every interleaving of two concurrent resume uploads by the same
\* user, at most one of that user's resumes is flagged primary once both
\* uploads have committed; it is the resume of the upload that committed
\* last.
C27_ConcurrentUploadsOnePrimary ==
    BothUploaded =>
        /\ Cardinality(PrimaryOf(req[1].user)) <= 1
        /\ PrimaryOf(req[1].user) = {Max({req[1].resume_id, req[2].resume_id})}

\* Two uploads of one user that arrived before either had stored its resume
\* have both committed
C27_Witness ==
    /\ BothUploaded
    /\ pre[1].resumes = pre[2].resumes
    /\ Len(resumes) = Len(pre[1].resumes) + 2
    /\ resumes[req[1].resume_id].user_id = req[2].user

-----------------------------------------------------------------------------
\* The request of worker p to apply has found its job and is inserting the
\* application, or has returned with it inserted
ApplyAccepted(p) ==
    /\ req[p].op = "apply"
    /\ \/ pc[p] \in {"apply_insert", "apply_history", "apply_notify"}
       \/ Returned(p, "apply", "ok")

\* Every apply that was accepted read its job as approved
AppliedOnlyWhenApproved ==
    \A p \in Workers :
        ApplyAccepted(p) =>
            /\ req[p].job_id \in DOMAIN pre[p].jobs
            /\ pre[p].jobs[req[p].job_id].is_approved

\* A step leaves the approval flag of every job as it was, but for the job an
\* admin request to approve or reject names in this step, whose flag becomes
\* what the admin asked; a job the step creates is unapproved
ApprovalOnlyByAdmin ==
    /\ \A j \in DOMAIN jobs' :
        IF j \in DOMAIN jobs
        THEN jobs'[j].is_approved # jobs[j].is_approved =>
                \E p \in Workers :
                    /\ pc[p] = "idle"
                    /\ req'[p].op = "approve"
                    /\ req'[p].job_id = j
                    /\ req'[p].is_approved = jobs'[j].is_approved
        ELSE ~jobs'[j].is_approved
    /\ \A p \in Workers :
        (pc[p] = "idle" /\ req'[p].op = "approve" /\ req'[p].job_id \in DOMAIN jobs) =>
            jobs'[req'[p].job_id].is_approved = req'[p].is_approved

-----------------------------------------------------------------------------
\* C29: in every state reached by registrations and admin user updates, the
\* number of accounts with role admin is at most 5.
C29_AtMostFiveAdmins == admin_count(users) <= MaxAdmins

-----------------------------------------------------------------------------
=============================================================================
